---------------------------- MODULE Spec2Model ----------------------------
(***************************************************************************)
(* A model of the DeepFabric Cloud Run job entrypoint                      *)
(* (src/deepfabric-job/entrypoint.py): the subprocess supervisor           *)
(* run_deepfabric, the authenticating proxy AuthProxyHandler with its      *)
(* token refresh, the pure transform transform_tools_response and the      *)
(* orchestration run_generate_mode.                                        *)
(*                                                                         *)
(* One specification per component, over one set of variables:             *)
(*   SpecSup    run_deepfabric (lines 449-515) and its subprocess          *)
(*   SpecProxy  AuthProxyHandler._proxy_request (lines 91-144)             *)
(*   SpecXf     transform_tools_response (lines 40-79)                     *)
(*   SpecJob    run_generate_mode (lines 598-720)                          *)
(* A specification leaves the variables of the other components at their   *)
(* initial values.                                                         *)
(***************************************************************************)
EXTENDS Integers, Sequences, FiniteSets, TLC

(***************************************************************************)
(* Bounds of the model.  Durations are scaled: the source's 86400 s        *)
(* timeout, 900 s progress interval, 45 min refresh interval and 20-line   *)
(* window become a few clock ticks and lines.                              *)
(***************************************************************************)
MaxTime == 4
\* most lines the subprocess writes in one run
MaxLines == 3
\* DEEPFABRIC_TIMEOUT, in ticks (entrypoint.py:470, default 86400)
TimeoutTicks == 2
\* PROGRESS_INTERVAL, in ticks (entrypoint.py:228, default 900)
ProgressTicks == 1
\* the progress window output_lines[-20:], in lines (entrypoint.py:502)
WindowLines == 2

\* Python's None
NONE == "<None>"
\* a key that a JSON object does not have
ABSENT == "<absent>"

Truthy(s) == s # NONE /\ s # ""

(***************************************************************************)
(* Output lines of the generation tool.  A line is kept with what the      *)
(* tests of _extract_progress read from it: whether it contains "total",   *)
(* "/" and (case-insensitively) "topic", and the groups of the first match *)
(* of total\s+(\d+)/(\d+), <<>> when the pattern does not match.           *)
(***************************************************************************)
MkLine(text, hasTotal, hasSlash, hasTopic, m) ==
    [text |-> text, hasTotal |-> hasTotal, hasSlash |-> hasSlash,
     hasTopic |-> hasTopic, m |-> m]

LinePlain == MkLine("Generating dataset", FALSE, FALSE, FALSE, <<>>)
LineEmpty == MkLine("", FALSE, FALSE, FALSE, <<>>)
LineStep  == MkLine("Step 244: +4 (total 976/10000)", TRUE, TRUE, FALSE, <<976, 10000>>)
LineTopic == MkLine("Topic 3/10 expanded", FALSE, TRUE, TRUE, <<>>)
LineZero  == MkLine("Step 1: +0 (total 5/0)", TRUE, TRUE, FALSE, <<5, 0>>)

\* the lines the modelled subprocess may write
ToolLines == {LinePlain, LineEmpty, LineStep, LineTopic, LineZero}

(***************************************************************************)
(* Python strings built from lines.  A string is kept as the sequence of   *)
(* lines that "\n" separates, the empty string as <<>>: "\n".join(xs) of   *)
(* no line and of the one empty line are both the empty string.            *)
(***************************************************************************)
JoinLines(lines) == IF lines = <<LineEmpty>> THEN <<>> ELSE lines

\* output_lines[-n:]
LastN(lines, n) ==
    IF Len(lines) <= n THEN lines ELSE SubSeq(lines, Len(lines) - n + 1, Len(lines))

(***************************************************************************)
(* _extract_progress (lines 518-536).  The result is a progress string,    *)
(* None, or the ZeroDivisionError of int(current) / int(total).            *)
(***************************************************************************)
\* f"{pct:.1f}" of current / total * 100, in tenths of a percent
PctTenths(current, total) == (2000 * current + total) \div (2 * total)

\* mutant: the ratio without the factor 100
PctRatio(current, total) == (current * 100) \div total

\* line 529: pct = int(current) / int(total) * 100, in hundredths of a percent
PctHundredths(current, total) == (current * 10000) \div total

\* a result: pct is the percentage as computed (hundredths), shown the digits
\* of it the returned text shows (tenths)
ProgressNone ==
    [kind |-> "none", current |-> 0, total |-> 0, pct |-> 0, shown |-> 0, text |-> ""]
ProgressRaise ==
    [kind |-> "ZeroDivisionError", current |-> 0, total |-> 0, pct |-> 0, shown |-> 0,
     text |-> ""]
ProgressSamples(current, total) ==
    [kind |-> "samples", current |-> current, total |-> total,
     pct |-> PctHundredths(current, total), shown |-> PctTenths(current, total),
     text |-> ""]
ProgressLine(line) ==
    [kind |-> "line", current |-> 0, total |-> 0, pct |-> 0, shown |-> 0,
     text |-> line.text]

RECURSIVE ScanReversed(_, _)
ScanReversed(lines, i) ==
    IF i = 0 THEN ProgressNone
    ELSE LET line == lines[i] IN
         IF line.hasTotal /\ line.hasSlash /\ line.m # <<>>
         THEN IF line.m[2] = 0 THEN ProgressRaise
              ELSE ProgressSamples(line.m[1], line.m[2])
         ELSE IF line.hasTopic /\ line.hasSlash THEN ProgressLine(line)
         ELSE ScanReversed(lines, i - 1)

extract_progress(lines) == ScanReversed(lines, Len(lines))

(***************************************************************************)
(* The result of run_deepfabric: (success, output/error).                  *)
(***************************************************************************)
NoResult == [success |-> FALSE, kind |-> "pending", lines |-> <<>>, n |-> 0]
\* (True, "\n".join(output_lines))
OutputSuccess(lines) ==
    [success |-> TRUE, kind |-> "output", lines |-> JoinLines(lines), n |-> 0]
\* (False, "\n".join(output_lines) or f"Exit code: {returncode}")
OutputFailure(lines, rc) ==
    IF JoinLines(lines) # <<>>
    THEN [success |-> FALSE, kind |-> "output", lines |-> JoinLines(lines), n |-> 0]
    ELSE [success |-> FALSE, kind |-> "exitcode", lines |-> <<>>, n |-> rc]
\* (False, f"Job timed out after {timeout_seconds} seconds")
TimeoutFailure(seconds) ==
    [success |-> FALSE, kind |-> "timeout", lines |-> <<>>, n |-> seconds]
\* (False, str(e))
ExceptionFailure == [success |-> FALSE, kind |-> "exception", lines |-> <<>>, n |-> 0]

(***************************************************************************)
(* JSON of the tool-listing endpoint.  An object is a record of its keys,  *)
(* a key it lacks holding ABSENT; JSON null is NONE; a JSON boolean b is   *)
(* <<b>>, so that <<>> can stand for the missing key.  A dict is kept, as  *)
(* Python keeps it, in insertion order: a sequence of [key, value] with    *)
(* distinct keys.                                                          *)
(***************************************************************************)
\* a parameter object {name, type, description?, default?, required?}
MkParam(name, type, description, default, required) ==
    [name |-> name, type |-> type, description |-> description,
     default |-> default, required |-> required]

\* an inputSchema: missing ("absent"), a list of parameters ("list"), or a
\* JSON object ("object") with its type, properties, required and other keys
MkSchema(form, params, type, properties, required, extra) ==
    [form |-> form, params |-> params, type |-> type, properties |-> properties,
     required |-> required, extra |-> extra]

SchemaAbsent == MkSchema("absent", <<>>, ABSENT, <<>>, <<>>, ABSENT)
SchemaList(params) == MkSchema("list", params, ABSENT, <<>>, <<>>, ABSENT)
\* required is <<>> for no "required" key, else <<names>>
SchemaObject(type, properties, required, extra) ==
    MkSchema("object", <<>>, type, properties, required, extra)
\* the empty dict {}
SchemaEmptyDict == SchemaObject(ABSENT, <<>>, <<>>, ABSENT)

MkTool(name, description, inputSchema, extra) ==
    [name |-> name, description |-> description, inputSchema |-> inputSchema,
     extra |-> extra]

\* a response object: with or without the key "tools", and its other keys
MkDoc(hasTools, tools, extra) == [hasTools |-> hasTools, tools |-> tools, extra |-> extra]

\* dict.get(key, default)
Get(v, default) == IF v = ABSENT THEN default ELSE v

\* properties[k] = v
DictSet(d, k, v) ==
    IF \E i \in 1..Len(d) : d[i].key = k
    THEN [i \in 1..Len(d) |-> IF d[i].key = k THEN [key |-> k, value |-> v] ELSE d[i]]
    ELSE Append(d, [key |-> k, value |-> v])

DictKeys(d) == {d[i].key : i \in 1..Len(d)}

(***************************************************************************)
(* transform_tools_response (lines 40-79).                                 *)
(***************************************************************************)
\* lines 57-61: the property built from one parameter
ParamProp(param) ==
    [type |-> Get(param.type, "string"),
     description |-> IF Truthy(Get(param.description, NONE))
                     THEN param.description ELSE ABSENT,
     default |-> IF Get(param.default, NONE) # NONE /\ param.default # ""
                 THEN param.default ELSE ABSENT]

\* mutant: tests that the key is there, `"required" in param`
ParamRequiredKeyPresent(param) == param.required # <<>>

\* line 63: param.get("required", False)
ParamRequired(param) == param.required = <<TRUE>>

\* lines 51-64: the loop over the parameters of a list schema
RECURSIVE ConvertParams(_, _, _, _)
ConvertParams(params, i, properties, required) ==
    IF i > Len(params) THEN [properties |-> properties, required |-> required]
    ELSE LET param == params[i]
             param_name == Get(param.name, "")
         IN  IF ~Truthy(param_name)
             THEN ConvertParams(params, i + 1, properties, required)
             ELSE ConvertParams(params, i + 1,
                                DictSet(properties, param_name, ParamProp(param)),
                                IF ParamRequired(param)
                                THEN Append(required, param_name) ELSE required)

\* mutant: every schema is emitted as a {"type": "object", ...} schema
ConvertSchemaNormalising(input_schema) ==
    IF input_schema.form = "list"
    THEN LET c == ConvertParams(input_schema.params, 1, <<>>, <<>>)
         IN  SchemaObject("object", c.properties,
                          IF c.required # <<>> THEN <<c.required>> ELSE <<>>, ABSENT)
    ELSE SchemaObject("object", input_schema.properties, input_schema.required,
                      input_schema.extra)

\* lines 48-71: the inputSchema a tool is emitted with
ConvertSchema(input_schema) ==
    IF input_schema.form = "list"
    THEN LET c == ConvertParams(input_schema.params, 1, <<>>, <<>>)
         IN  SchemaObject("object", c.properties,
                          IF c.required # <<>> THEN <<c.required>> ELSE <<>>, ABSENT)
    ELSE IF input_schema.form = "absent" THEN SchemaEmptyDict
    ELSE input_schema

\* lines 73-77
ConvertTool(tool) ==
    MkTool(Get(tool.name, ""), Get(tool.description, ""),
           ConvertSchema(tool.inputSchema), ABSENT)

\* mutant: a tool without a name is skipped, as a parameter without one is
TransformSkippingUnnamed(data) ==
    IF ~data.hasTools THEN data
    ELSE LET HasName(tool) == Truthy(Get(tool.name, ""))
             kept == SelectSeq(data.tools, HasName)
         IN  MkDoc(TRUE, [i \in 1..Len(kept) |-> ConvertTool(kept[i])], ABSENT)

\* lines 42-79
transform_tools_response(data) ==
    IF ~data.hasTools THEN data
    ELSE MkDoc(TRUE, [i \in 1..Len(data.tools) |-> ConvertTool(data.tools[i])], ABSENT)

(***************************************************************************)
(* HTTP as AuthProxyHandler sees it.  A URL or path is the sequence of the *)
(* pieces it is written with ("/mock", "/list-tools", "?limit=5"), so that *)
(* rstrip("/"), concatenation and the test "/list-tools" in self.path are  *)
(* computed.  A header value is the string sent; a missing header is       *)
(* ABSENT.                                                                 *)
(***************************************************************************)
MkRequest(method, path, content_length, content_type, authorization, body) ==
    [method |-> method, path |-> path, content_length |-> content_length,
     content_type |-> content_type, authorization |-> authorization, body |-> body]

\* a body: its bytes when they are not JSON (text), or the JSON document they
\* encode (doc) and whether they are exactly json.dumps(doc) (py)
MkBody(text, json, doc, py) == [text |-> text, json |-> json, doc |-> doc, py |-> py]
NoDoc == MkDoc(FALSE, <<>>, ABSENT)
TextBody(text) == MkBody(text, FALSE, NoDoc, FALSE)
JsonBody(doc, py) == MkBody("", TRUE, doc, py)

\* what urlopen does: returns a response, raises HTTPError, raises URLError
MkReply(kind, status, body) == [kind |-> kind, status |-> status, body |-> body]

\* what the caller of the proxy gets: a response ("sent"), or the connection
\* closed without one ("dropped"); "pending" while the request is handled
MkResponse(kind, status, content_type, body) ==
    [kind |-> kind, status |-> status, content_type |-> content_type, body |-> body]
NoResponse == MkResponse("pending", 0, ABSENT, TextBody(""))
Dropped == MkResponse("dropped", 0, ABSENT, TextBody(""))

\* the request urllib sends; token is what follows "Bearer "
MkOutbound(url, method, data, token, content_type) ==
    [url |-> url, method |-> method, data |-> data, token |-> token,
     content_type |-> content_type]
NoOutbound == MkOutbound(<<>>, "", NONE, NONE, ABSENT)
NoRequest == MkRequest("", <<>>, ABSENT, ABSENT, ABSENT, "")
NoReply == MkReply("none", 0, TextBody(""))

\* s.rstrip("/")
RECURSIVE Rstrip(_)
Rstrip(url) ==
    IF url # <<>> /\ url[Len(url)] = "/" THEN Rstrip(SubSeq(url, 1, Len(url) - 1))
    ELSE url

\* int(s) of a header value: <<n>>, or <<>> for the ValueError
ParseInt(s) ==
    CASE s = "0" -> <<0>>
      [] s = "5" -> <<5>>
      [] s = "-1" -> <<-1>>
      [] OTHER -> <<>>

\* line 124: "/list-tools" in self.path
IsListToolsPath(path) == \E i \in 1..Len(path) : path[i] = "/list-tools"

VARIABLES
    now,                  \* time.time(), in ticks
    sup_pc,               \* where run_deepfabric is
    proc,                 \* the subprocess: "none", "running", "exited", "killed"
    stdout_open,          \* the subprocess still holds its end of the output pipe
    pipe,                 \* lines written by the subprocess and not yet read
    returncode,           \* process.returncode: <<>> until it exits, then <<rc>>
    proc_end,             \* when the subprocess exited or was killed
    timeout_seconds,
    progress_interval,
    start_time,
    last_progress_update,
    output_lines,
    sup_result,           \* what run_deepfabric returned
    progress_updates,     \* the calls of _send_progress_update, in order
    cmd,                  \* the command line run_deepfabric built, <<>> before the call
    slack_webhook_url,
    job_name

\* transform_tools_response applied to one decoded response
VARIABLES
    xf_in,                \* the argument data
    xf_out,               \* the value returned
    xf_pc                 \* "ready" before the call, "done" after

\* the auth proxy: the module globals and the one request being handled
\* (socketserver.TCPServer serves one connection at a time)
VARIABLES
    spin_endpoint,        \* _spin_endpoint
    auth_token,           \* _auth_token
    token_obtained_at,    \* _token_obtained_at
    token_lock,           \* _token_lock: "free", or "handler" while held
    listening,            \* the TCPServer is bound and served
    h_pc,                 \* where _proxy_request is: "idle", "refreshing", "build", "forwarding"
    h_request,            \* the inbound request
    h_new_token,          \* new_token of the last refresh, ABSENT before any
    h_outbound,           \* the request sent to the backend
    h_reply,              \* what urlopen gave
    h_response,           \* what the caller got
    h_pending,            \* connections made and not yet taken by the server loop
    last_fetched          \* history: the token of the last successful get_identity_token

\* _extract_progress called on one window, twice
VARIABLES
    pg_given,             \* history: the window as it was before the first call
    pg_lines,             \* the list passed as lines
    pg_results            \* what the calls made so far returned, in order

\* send_slack_notification called once
VARIABLES
    note_args,            \* status, output_files and error_message of the call
    note_payload          \* the blocks of the payload it posts, <<>> before the call

\* run_generate_mode
VARIABLES
    job_pc,               \* the step run_generate_mode is at
    notifications,        \* the calls of send_slack_notification, in order
    exit_code             \* <<>> while the process runs, then <<code>>

\* main and run_import_tools_mode
VARIABLES
    job_mode,             \* JOB_MODE as the environment gives it
    main_pc,              \* where main is
    import_result         \* <<>>, then what run_import_tools returned

\* run_generate_mode: the run mode, the config and the outputs
VARIABLES
    topic_only,           \* TOPIC_ONLY == "true"
    topics_load_gcs,      \* TOPICS_LOAD
    local_topics_path,    \* None, or the downloaded topic graph
    config,               \* the job config as downloaded
    expected_outputs,     \* get_output_files_from_config(...)
    disk,                 \* the files that exist under work_dir
    run_timestamp,        \* timestamp of line 670: <<>> before, then <<time>>
    upload_idx,           \* position of the upload loop in expected_outputs
    output_files,         \* the manifest being built
    uploaded              \* the blob paths written to the bucket, in order

supLocal == <<sup_pc, proc, stdout_open, pipe, returncode, proc_end,
              timeout_seconds, progress_interval, start_time, last_progress_update,
              output_lines, sup_result, progress_updates, slack_webhook_url, job_name>>
supVars == <<now, supLocal>>
xfVars == <<xf_in, xf_out, xf_pc>>
tokenVars == <<spin_endpoint, auth_token, token_obtained_at, token_lock, listening,
               h_new_token, last_fetched>>
handlerVars == <<h_pc, h_request, h_outbound, h_reply, h_response, h_pending>>
proxyVars == <<tokenVars, handlerVars>>
jobVars == <<job_pc, notifications, exit_code>>
pgVars == <<pg_given, pg_lines, pg_results>>
noteVars == <<note_args, note_payload>>
modeVars == <<topic_only, topics_load_gcs, local_topics_path, config, expected_outputs>>
uploadVars == <<run_timestamp, upload_idx, output_files, uploaded>>
colVars == <<modeVars, disk, uploadVars>>
mainVars == <<job_mode, main_pc, import_result>>

otherThanSup == <<xfVars, proxyVars, jobVars, pgVars, noteVars, colVars, mainVars>>
otherThanXf == <<supVars, cmd, proxyVars, jobVars, pgVars, noteVars, colVars, mainVars>>
otherThanProxy == <<supLocal, cmd, xfVars, pgVars, noteVars, colVars, mainVars>>
otherThanPg == <<supVars, cmd, xfVars, proxyVars, jobVars, noteVars, colVars, mainVars>>

otherThanNote == <<supVars, cmd, xfVars, proxyVars, jobVars, pgVars, colVars, mainVars>>

vars == <<supVars, cmd, xfVars, proxyVars, jobVars, pgVars, noteVars, colVars, mainVars>>

(***************************************************************************)
(* run_deepfabric (lines 449-515) and the subprocess it supervises.        *)
(***************************************************************************)
WebhookURL == "https://hooks.example/services/T"
JobName == "job-1"
\* (slack_webhook_url, job_name) as run_deepfabric may be called
NotifyArgs == {<<WebhookURL, JobName>>, <<NONE, JobName>>, <<WebhookURL, NONE>>}

\* the state at the call of run_deepfabric with the given DEEPFABRIC_TIMEOUT
SupStart(timeout) ==
    /\ now = 0
    /\ sup_pc = "start"
    /\ proc = "none"
    /\ stdout_open = FALSE
    /\ pipe = <<>>
    /\ returncode = <<>>
    /\ proc_end = 0
    /\ timeout_seconds = timeout
    /\ progress_interval = ProgressTicks
    /\ start_time = 0
    /\ last_progress_update = 0
    /\ output_lines = <<>>
    /\ sup_result = NoResult
    /\ progress_updates = <<>>
    /\ cmd = <<>>
    /\ \E a \in NotifyArgs : slack_webhook_url = a[1] /\ job_name = a[2]

SupInit == SupStart(TimeoutTicks)

\* mutant: each option is appended by a test of its own
CommandLineBothFlags(is_topic_only, topics_load) ==
    <<"deepfabric", "generate", "config.yaml", "--tui", "simple">>
        \o (IF is_topic_only THEN <<"--topic-only">> ELSE <<>>)
        \o (IF Truthy(topics_load) THEN <<"--topics-load", topics_load>> ELSE <<>>)

\* lines 459-464: the command line, --topic-only taking precedence
CommandLine(is_topic_only, topics_load) ==
    <<"deepfabric", "generate", "config.yaml", "--tui", "simple">>
        \o (IF is_topic_only THEN <<"--topic-only">>
            ELSE IF Truthy(topics_load) THEN <<"--topics-load", topics_load>>
            ELSE <<>>)

\* subprocess.Popen(...) succeeds (lines 472-484)
Popen ==
    /\ sup_pc = "start"
    /\ cmd' = CommandLine(topic_only, local_topics_path)
    /\ sup_pc' = "reading"
    /\ proc' = "running"
    /\ stdout_open' = TRUE
    /\ last_progress_update' = now
    /\ start_time' = now
    /\ UNCHANGED <<now, pipe, returncode, proc_end, timeout_seconds, progress_interval,
                   output_lines, sup_result, progress_updates, slack_webhook_url, job_name>>
    /\ UNCHANGED otherThanSup

\* subprocess.Popen(...) raises (no executable): except Exception, line 514
PopenRaises ==
    /\ sup_pc = "start"
    /\ cmd' = CommandLine(topic_only, local_topics_path)
    /\ sup_pc' = "returned"
    /\ sup_result' = ExceptionFailure
    /\ UNCHANGED <<now, proc, stdout_open, pipe, returncode, proc_end, timeout_seconds,
                   progress_interval, start_time, last_progress_update, output_lines,
                   progress_updates, slack_webhook_url, job_name>>
    /\ UNCHANGED otherThanSup

\* the clock advances while the supervisor is in the loop or in process.wait()
SupTick ==
    /\ sup_pc \in {"reading", "waiting"}
    /\ now < MaxTime
    /\ now' = now + 1
    /\ UNCHANGED <<sup_pc, proc, stdout_open, pipe, returncode, proc_end, timeout_seconds,
                   progress_interval, start_time, last_progress_update, output_lines,
                   sup_result, progress_updates, slack_webhook_url, job_name>>
    /\ UNCHANGED <<otherThanSup, cmd>>

\* the subprocess writes a line to its stdout/stderr pipe
ProcWrite(line) ==
    /\ proc = "running"
    /\ stdout_open
    /\ Len(output_lines) + Len(pipe) < MaxLines
    /\ pipe' = Append(pipe, line)
    /\ UNCHANGED <<now, sup_pc, proc, stdout_open, returncode, proc_end, timeout_seconds,
                   progress_interval, start_time, last_progress_update, output_lines,
                   sup_result, progress_updates, slack_webhook_url, job_name>>
    /\ UNCHANGED <<otherThanSup, cmd>>

\* the subprocess closes its output and keeps running
ProcCloseStdout ==
    /\ proc = "running"
    /\ stdout_open
    /\ stdout_open' = FALSE
    /\ UNCHANGED <<now, sup_pc, proc, pipe, returncode, proc_end, timeout_seconds,
                   progress_interval, start_time, last_progress_update, output_lines,
                   sup_result, progress_updates, slack_webhook_url, job_name>>
    /\ UNCHANGED <<otherThanSup, cmd>>

\* the subprocess exits by itself with status rc
ProcExit(rc) ==
    /\ proc = "running"
    /\ proc' = "exited"
    /\ stdout_open' = FALSE
    /\ returncode' = <<rc>>
    /\ proc_end' = now
    /\ UNCHANGED <<now, sup_pc, pipe, timeout_seconds, progress_interval, start_time,
                   last_progress_update, output_lines, sup_result, progress_updates,
                   slack_webhook_url, job_name>>
    /\ UNCHANGED <<otherThanSup, cmd>>

(***************************************************************************)
(* One iteration of `for line in process.stdout` (lines 487-505): the      *)
(* line is appended, then the deadline is checked, then the progress       *)
(* update is considered.                                                   *)
(***************************************************************************)
\* mutant: the subprocess is killed on reaching the deadline
TimedOutAtDeadline == now - start_time >= timeout_seconds

\* line 495: time.time() - start_time > timeout_seconds
TimedOut == now - start_time > timeout_seconds

\* mutant: a scan as soon as the interval has passed
ProgressDueAtInterval ==
    /\ Truthy(slack_webhook_url)
    /\ Truthy(job_name)
    /\ now - last_progress_update >= progress_interval

\* lines 499-500: slack_webhook_url and job_name, and
\* time.time() - last_progress_update > progress_interval
ProgressDue ==
    /\ Truthy(slack_webhook_url)
    /\ Truthy(job_name)
    /\ now - last_progress_update > progress_interval

\* what becomes of a POST to the webhook (lines 335 and 552): answered with
\* a 2xx status, not answered at all, or answered with an error status
Deliveries == {"ok", "unreachable", "http-500"}

\* mutant: _send_progress_update is called whatever the scan found
ProgressUpdatesAlways(updates, progress_info, at, delivery) ==
    Append(updates, [at |-> at, progress |-> progress_info, delivery |-> delivery])

\* lines 499-501: if progress_info: _send_progress_update(...)
ProgressUpdatesAfter(updates, progress_info, at, delivery) ==
    IF progress_info.kind = "none" THEN updates
    ELSE Append(updates, [at |-> at, progress |-> progress_info, delivery |-> delivery])

\* mutant: an unanswered POST raises out of _send_progress_update
ProgressSendRaisesOnFailure(delivery) == delivery = "unreachable"

\* lines 551-554: requests.post runs inside a try whose except Exception
\* passes; the response status is not looked at
ProgressSendRaises(delivery) == FALSE

SupReadLine(delivery) ==
    /\ sup_pc = "reading"
    /\ pipe # <<>>
    /\ LET lines == Append(output_lines, Head(pipe))
           progress_info == extract_progress(LastN(lines, WindowLines))
       IN  /\ pipe' = Tail(pipe)
           /\ output_lines' = lines
           /\ IF TimedOut
              THEN \* process.kill(); return False, "Job timed out ..."
                   /\ proc' = IF proc = "running" THEN "killed" ELSE proc
                   /\ proc_end' = IF proc = "running" THEN now ELSE proc_end
                   /\ stdout_open' = FALSE
                   /\ sup_pc' = "returned"
                   /\ sup_result' = TimeoutFailure(timeout_seconds)
                   /\ UNCHANGED <<last_progress_update, progress_updates>>
              ELSE IF ProgressDue
              THEN IF progress_info.kind = "ZeroDivisionError"
                   THEN \* except Exception as e: return False, str(e)
                        /\ sup_pc' = "returned"
                        /\ sup_result' = ExceptionFailure
                        /\ UNCHANGED <<proc, proc_end, stdout_open,
                                       last_progress_update, progress_updates>>
                   ELSE /\ progress_updates' =
                             ProgressUpdatesAfter(progress_updates, progress_info, now,
                                                  delivery)
                        /\ IF progress_updates' # progress_updates
                              /\ ProgressSendRaises(delivery)
                           THEN \* except Exception as e: return False, str(e)
                                /\ sup_pc' = "returned"
                                /\ sup_result' = ExceptionFailure
                                /\ UNCHANGED last_progress_update
                           ELSE /\ last_progress_update' = now
                                /\ UNCHANGED <<sup_pc, sup_result>>
                        /\ UNCHANGED <<proc, proc_end, stdout_open>>
              ELSE UNCHANGED <<sup_pc, sup_result, proc, proc_end, stdout_open,
                               last_progress_update, progress_updates>>
    /\ UNCHANGED <<now, returncode, timeout_seconds, progress_interval, start_time,
                   slack_webhook_url, job_name>>
    /\ UNCHANGED <<otherThanSup, cmd>>

\* the pipe reaches end of file: the loop ends and process.wait() is entered
SupEndOfOutput ==
    /\ sup_pc = "reading"
    /\ pipe = <<>>
    /\ ~stdout_open
    /\ proc # "none"
    /\ sup_pc' = "waiting"
    /\ UNCHANGED <<now, proc, stdout_open, pipe, returncode, proc_end, timeout_seconds,
                   progress_interval, start_time, last_progress_update, output_lines,
                   sup_result, progress_updates, slack_webhook_url, job_name>>
    /\ UNCHANGED <<otherThanSup, cmd>>

\* process.wait() returns; the result follows the return code (lines 507-512)
SupWaitReturns ==
    /\ sup_pc = "waiting"
    /\ proc = "exited"
    /\ sup_pc' = "returned"
    /\ sup_result' = IF returncode = <<0>> THEN OutputSuccess(output_lines)
                     ELSE OutputFailure(output_lines, returncode[1])
    /\ UNCHANGED <<now, proc, stdout_open, pipe, returncode, proc_end, timeout_seconds,
                   progress_interval, start_time, last_progress_update, output_lines,
                   progress_updates, slack_webhook_url, job_name>>
    /\ UNCHANGED <<otherThanSup, cmd>>

ExitCodes == {0, 1}

SupNext ==
    \/ Popen
    \/ PopenRaises
    \/ SupTick
    \/ \E line \in ToolLines : ProcWrite(line)
    \/ ProcCloseStdout
    \/ \E rc \in ExitCodes : ProcExit(rc)
    \/ \E delivery \in Deliveries : SupReadLine(delivery)
    \/ SupEndOfOutput
    \/ SupWaitReturns

\* the supervisor not in use
SupIdle ==
    /\ SupInit
    /\ slack_webhook_url = WebhookURL
    /\ job_name = JobName


(***************************************************************************)
(* transform_tools_response on bounded inputs.                             *)
(***************************************************************************)
MaxParams == 2
MaxTools == 2

BoundedSeq(S, n) == UNION {[1..k -> S] : k \in 0..n}
InsertAt(seq, p, x) ==
    [i \in 1..(Len(seq) + 1) |->
        IF i < p THEN seq[i] ELSE IF i = p THEN x ELSE seq[i - 1]]

\* the parameter of the spec's example: {"name":"q","type":"string","required":true}
ParamQ == MkParam("q", "string", ABSENT, ABSENT, <<TRUE>>)
\* no type, a description, a default, no required key
ParamR == MkParam("r", ABSENT, "the r", "v", <<>>)
\* a second "q": empty description, null default, required false
ParamQ2 == MkParam("q", "integer", "", NONE, <<FALSE>>)
\* empty default, required
ParamS == MkParam("s", "string", ABSENT, "", <<TRUE>>)
\* no name and an empty name, both flagged required
ParamNoName == MkParam(ABSENT, "integer", ABSENT, ABSENT, <<TRUE>>)
ParamEmptyName == MkParam("", "string", "unnamed", ABSENT, <<TRUE>>)

XfParams == {ParamQ, ParamR, ParamQ2, ParamS, ParamNoName, ParamEmptyName}

PropString == [type |-> "string", description |-> ABSENT, default |-> ABSENT]
\* {"type":"object","properties":{"q":{"type":"string"}},"required":["q"]}
SchemaObjQ == SchemaObject("object", <<[key |-> "q", value |-> PropString]>>,
                           <<(<<"q">>)>>, ABSENT)
\* an object schema with no type and another key
SchemaObjLoose == SchemaObject(ABSENT, <<[key |-> "a", value |-> PropString]>>,
                               <<>>, "additionalProperties")

XfSchemas ==
    {SchemaAbsent, SchemaEmptyDict, SchemaObjQ, SchemaObjLoose}
        \cup {SchemaList(ps) : ps \in BoundedSeq(XfParams, MaxParams)}

\* name, description and other keys of a tool
XfToolHeads == {<<"x", ABSENT, ABSENT>>, <<ABSENT, "does it", "mock_response">>}
XfTools == {MkTool(h[1], h[2], sch, h[3]) : h \in XfToolHeads, sch \in XfSchemas}
\* the tools around the one whose schema varies
XfOtherTools == {MkTool("y", "does y", SchemaObjQ, ABSENT),
                 MkTool(ABSENT, ABSENT, SchemaList(<<ParamR>>), "mock_response")}

\* the documents in which one tool of `tools` stands among the other tools
XfDocs(tools) ==
    {MkDoc(FALSE, <<>>, "count"), MkDoc(TRUE, <<>>, ABSENT)}
        \cup UNION {{MkDoc(TRUE, InsertAt(rest, p, t), e) :
                         t \in tools, e \in {ABSENT, "count"}, p \in 1..(Len(rest) + 1)} :
                    rest \in BoundedSeq(XfOtherTools, MaxTools - 1)}

XfInit ==
    /\ \E t \in XfTools : xf_in \in XfDocs({t})
    /\ xf_out = NoDoc
    /\ xf_pc = "ready"

XfIdle ==
    /\ xf_in = NoDoc
    /\ xf_out = NoDoc
    /\ xf_pc = "ready"

\* data = transform_tools_response(data)
XfApply ==
    /\ xf_pc = "ready"
    /\ xf_out' = transform_tools_response(xf_in)
    /\ xf_pc' = "done"
    /\ UNCHANGED xf_in
    /\ UNCHANGED otherThanXf

XfNext == XfApply

(***************************************************************************)
(* _extract_progress on bounded windows.                                   *)
(***************************************************************************)
\* "total" and "/" without the counted pattern, and "topic" as well
LineTotalTopic == MkLine("Subtopics in total: 3/10", TRUE, TRUE, TRUE, <<>>)
\* "topic" without "/"
LineTopicNoSlash == MkLine("Building topic tree", FALSE, FALSE, TRUE, <<>>)
LineStepEarly == MkLine("Step 1: +4 (total 4/10000)", TRUE, TRUE, FALSE, <<4, 10000>>)

WindowLineSet == ToolLines \cup {LineTotalTopic, LineTopicNoSlash, LineStepEarly}

Reverse(seq) == [i \in 1..Len(seq) |-> seq[Len(seq) + 1 - i]]

\* mutant: lines.reverse() in place of reversed(lines)
WindowAfterReverseInPlace(lines) == Reverse(lines)

\* line 523: reversed(lines) makes an iterator, the list is left alone
WindowAfterScan(lines) == lines

PgInit ==
    /\ pg_given \in BoundedSeq(WindowLineSet, MaxLines)
    /\ pg_lines = pg_given
    /\ pg_results = <<>>

PgIdle ==
    /\ pg_given = <<>>
    /\ pg_lines = <<>>
    /\ pg_results = <<>>

\* progress_info = _extract_progress(lines)
PgCall ==
    /\ Len(pg_results) < 2
    /\ pg_results' = Append(pg_results, extract_progress(pg_lines))
    /\ pg_lines' = WindowAfterScan(pg_lines)
    /\ UNCHANGED pg_given
    /\ UNCHANGED otherThanPg

PgNext == PgCall

(***************************************************************************)
(* The auth proxy: start_auth_proxy (lines 151-168), get_identity_token    *)
(* (lines 342-355) and AuthProxyHandler._proxy_request (lines 91-144).     *)
(***************************************************************************)
\* TOKEN_REFRESH_INTERVAL, in ticks (entrypoint.py:37, 45 * 60 seconds)
RefreshTicks == 1

\* connections that may wait in the listening socket's queue
MaxPending == 2

Tokens == {"tok-A", "tok-B"}
\* what get_identity_token returns: response.text, or None on any failure
FetchResults == Tokens \cup {NONE, ""}

SpinEndpoints == {<<"https://spin.example">>, <<"https://spin.example", "/">>}

\* line 96
RefreshDue == now - token_obtained_at > RefreshTicks

\* mutant: the refresh result is stored whatever it is
RefreshedTokenUnchecked(token, new_token) == new_token

\* mutant: the refreshed token is dropped
RefreshedTokenDropped(token, new_token) == token

\* lines 99-104: _auth_token after a refresh that returned new_token
RefreshedToken(token, new_token) == IF Truthy(new_token) THEN new_token ELSE token

\* mutant: the caller's Authorization header is forwarded when there is one
BuildOutboundKeepingAuth(request, content_length) ==
    MkOutbound(Rstrip(spin_endpoint) \o request.path,
               request.method,
               IF content_length > 0 THEN request.body ELSE NONE,
               IF request.authorization # ABSENT THEN "caller" ELSE auth_token,
               IF Truthy(Get(request.content_type, NONE)) THEN request.content_type
               ELSE ABSENT)

\* lines 106-116 and 119: the outbound request
BuildOutbound(request, content_length) ==
    MkOutbound(Rstrip(spin_endpoint) \o request.path,
               request.method,
               IF content_length > 0 THEN request.body ELSE NONE,
               auth_token,
               IF Truthy(Get(request.content_type, NONE)) THEN request.content_type
               ELSE ABSENT)

\* lines 124-130: the tools list is reshaped, the body kept if it is not JSON
TransformBody(body) ==
    IF body.json THEN JsonBody(transform_tools_response(body.doc), TRUE) ELSE body

\* mutant: every successful response is reshaped
RelayedBodyAlways(path, body) == TransformBody(body)

\* lines 121-130: response_body
RelayedBody(path, body) == IF IsListToolsPath(path) THEN TransformBody(body) ELSE body

\* mutant: every failure is answered 500 with the error text
ProxyResponseAll500(path, reply) ==
    IF reply.kind = "response"
    THEN MkResponse("sent", reply.status, "application/json",
                    RelayedBody(path, reply.body))
    ELSE MkResponse("sent", 500, ABSENT, TextBody("HTTP Error"))

\* lines 118-144: the response to the caller for what urlopen gave
ProxyResponse(path, reply) ==
    IF reply.kind = "response"
    THEN MkResponse("sent", reply.status, "application/json",
                    RelayedBody(path, reply.body))
    ELSE IF reply.kind = "HTTPError"
    THEN MkResponse("sent", reply.status, ABSENT, reply.body)
    ELSE MkResponse("sent", 500, ABSENT, reply.body)

\* the requests of the generation tool
PathHealth == <<"/health">>
PathListTools == <<"/mock", "/list-tools">>
PathListToolsQuery == <<"/mock", "/list-tools", "?limit=5">>
PathExecute == <<"/mock", "/execute">>
PathUpdate == <<"/mock", "/update-response">>
\* another endpoint, with a query string that mentions the listing path
PathExecuteFrom == <<"/mock", "/execute", "?from=", "/list-tools">>

ProxyRequests ==
    {MkRequest("GET", PathHealth, ABSENT, ABSENT, ABSENT, ""),
     MkRequest("GET", PathListTools, ABSENT, ABSENT, ABSENT, ""),
     MkRequest("GET", PathListToolsQuery, ABSENT, ABSENT, "Bearer caller", ""),
     MkRequest("POST", PathExecute, "5", "application/json", "Bearer caller", "hello"),
     MkRequest("POST", PathUpdate, "5", ABSENT, ABSENT, "hello"),
     MkRequest("POST", PathExecuteFrom, "5", "application/json", ABSENT, "hello"),
     MkRequest("POST", PathUpdate, "0", "text/plain", ABSENT, ""),
     MkRequest("POST", PathExecute, "abc", "application/json", ABSENT, "hello")}

\* the bodies of the backend
BodyPong == TextBody("pong")
BodyNone == TextBody("")
BodyNotFound == TextBody("tool not found")
\* the spec's example, as the backend writes it
BodyToolsList ==
    JsonBody(MkDoc(TRUE, <<MkTool("x", ABSENT, SchemaList(<<ParamQ>>), ABSENT)>>, ABSENT),
             FALSE)
\* tools already in object form, written as json.dumps writes them
BodyToolsObject ==
    JsonBody(MkDoc(TRUE, <<MkTool("y", "does y", SchemaObjQ, ABSENT)>>, ABSENT), TRUE)
\* a JSON object without "tools"
BodyResult == JsonBody(MkDoc(FALSE, <<>>, "result"), FALSE)

BackendReplies ==
    {MkReply("response", 200, b) :
         b \in {BodyPong, BodyNone, BodyToolsList, BodyToolsObject, BodyResult}}
        \cup {MkReply("response", 201, BodyResult),
              MkReply("HTTPError", 404, BodyNotFound),
              MkReply("HTTPError", 500, BodyToolsList),
              MkReply("HTTPError", 401, BodyNone),
              MkReply("URLError", 0, TextBody("<urlopen error [Errno 111] Connection refused>"))}

\* the error_message argument of send_slack_notification: the supervisor's
\* output (lines 482, 504, 512 and 516) or the str(e) of line 713
MkError(kind, lines, n, text) == [kind |-> kind, lines |-> lines, n |-> n, text |-> text]
NoError == MkError("none", <<>>, 0, "")
ErrorOf(result) == MkError(result.kind, result.lines, result.n, "")
ExceptionText(text) == MkError("exception", <<>>, 0, text)

\* a terminal notification: send_slack_notification(status, output_files, error_message)
MkNotification(status, files, error) ==
    [status |-> status, output_files |-> files, error |-> error]

\* the notification as posted, with what became of the POST
Sent(notification, delivery) ==
    [status |-> notification.status, output_files |-> notification.output_files,
     error |-> notification.error, delivery |-> delivery]

\* mutant: a failed POST raises out of send_slack_notification
NotificationRaisesOnFailure(delivery) == delivery # "ok"

\* lines 334-339: requests.post and raise_for_status run inside a try whose
\* except Exception prints a warning, so nothing is raised to the caller
NotificationRaises(delivery) == FALSE

\* mutant: the except block exits without sending the notification
FailedWithSilently(text) ==
    /\ notifications' = notifications
    /\ exit_code' = <<1>>
    /\ job_pc' = "exited"

\* lines 706-720: the except block of run_generate_mode; a raise out of the
\* notification sent here would go uncaught and end the process with status 1 too
FailedWith(text) ==
    /\ \E delivery \in Deliveries :
           notifications' =
               Append(notifications,
                      Sent(MkNotification("failed", <<>>, ExceptionText(text)), delivery))
    /\ exit_code' = <<1>>
    /\ job_pc' = "exited"

ProxyInit ==
    /\ now = 0
    /\ spin_endpoint \in SpinEndpoints
    /\ auth_token = NONE
    /\ token_obtained_at = 0
    /\ token_lock = "free"
    /\ listening = FALSE
    /\ h_pc = "idle"
    /\ h_request = NoRequest
    /\ h_new_token = ABSENT
    /\ h_outbound = NoOutbound
    /\ h_reply = NoReply
    /\ h_response = NoResponse
    /\ h_pending = 0
    /\ last_fetched = NONE

\* run_generate_mode entered
JobInit ==
    /\ job_pc = "read_env"
    /\ notifications = <<>>
    /\ exit_code = <<>>

\* the environment read, the try block entered (line 628)
JobEnvRead ==
    /\ job_pc = "start_proxy"
    /\ notifications = <<>>
    /\ exit_code = <<>>

\* mutant: the server is started without testing the token
JobStartProxyUnchecked(token) ==
    /\ job_pc = "start_proxy"
    /\ auth_token' = token
    /\ token_obtained_at' = now
    /\ last_fetched' = IF Truthy(token) THEN token ELSE last_fetched
    /\ listening' = TRUE
    /\ job_pc' = "download"
    /\ UNCHANGED <<notifications, exit_code>>
    /\ UNCHANGED <<now, spin_endpoint, token_lock, h_new_token, handlerVars>>
    /\ UNCHANGED otherThanProxy

\* lines 628-632 with start_auth_proxy (151-168): the first token is fetched,
\* the server is started if there is one, else RuntimeError is raised
JobStartProxy(token) ==
    /\ job_pc = "start_proxy"
    /\ auth_token' = token
    /\ token_obtained_at' = now
    /\ last_fetched' = IF Truthy(token) THEN token ELSE last_fetched
    /\ IF Truthy(token)
       THEN /\ listening' = TRUE
            /\ job_pc' = "download"
            /\ UNCHANGED <<notifications, exit_code>>
       ELSE /\ listening' = FALSE
            /\ FailedWith("RuntimeError: Failed to start auth proxy")
    /\ UNCHANGED <<now, spin_endpoint, token_lock, h_new_token, handlerVars>>
    /\ UNCHANGED otherThanProxy

\* the clock advances
ProxyTick ==
    /\ now < MaxTime
    /\ exit_code = <<>>
    /\ now' = now + 1
    /\ UNCHANGED <<proxyVars, jobVars>>
    /\ UNCHANGED otherThanProxy

\* a client connects to the listening socket; the connection waits in the
\* socket's queue until the server loop takes it
ClientConnect ==
    /\ listening
    /\ exit_code = <<>>
    /\ h_pending < MaxPending
    /\ h_pending' = h_pending + 1
    /\ UNCHANGED <<now, tokenVars, h_pc, h_request, h_outbound, h_reply, h_response,
                   jobVars>>
    /\ UNCHANGED otherThanProxy

\* lines 163-165 and 91-96: serve_forever of socketserver.TCPServer takes the
\* next connection when no request is being handled and runs the handler in
\* the same thread; the lock is acquired and the age tested
HandlerAccept(request) ==
    /\ listening
    /\ exit_code = <<>>
    /\ h_pc = "idle"
    /\ token_lock = "free"
    /\ h_pending > 0
    /\ h_pending' = h_pending - 1
    /\ h_request' = request
    /\ h_outbound' = NoOutbound
    /\ h_reply' = NoReply
    /\ h_response' = NoResponse
    /\ IF RefreshDue
       THEN h_pc' = "refreshing" /\ token_lock' = "handler"
       ELSE h_pc' = "build" /\ token_lock' = "free"
    /\ UNCHANGED <<now, spin_endpoint, auth_token, token_obtained_at, listening,
                   h_new_token, last_fetched, jobVars>>
    /\ UNCHANGED otherThanProxy

\* lines 98-104: get_identity_token returns, the lock is released
HandlerRefreshed(new_token) ==
    /\ h_pc = "refreshing"
    /\ h_new_token' = new_token
    /\ auth_token' = RefreshedToken(auth_token, new_token)
    /\ token_obtained_at' = IF Truthy(new_token) THEN now ELSE token_obtained_at
    /\ last_fetched' = IF Truthy(new_token) THEN new_token ELSE last_fetched
    /\ token_lock' = "free"
    /\ h_pc' = "build"
    /\ UNCHANGED <<now, spin_endpoint, listening, h_request, h_outbound, h_reply,
                   h_response, h_pending, jobVars>>
    /\ UNCHANGED otherThanProxy

\* lines 106-119: the body is read and the outbound request built; a
\* Content-Length that is no number raises ValueError outside the try, the
\* server logs it and closes the connection
HandlerBuild ==
    /\ h_pc = "build"
    /\ LET content_length == ParseInt(Get(h_request.content_length, "0"))
       IN  IF content_length = <<>>
           THEN /\ h_response' = Dropped
                /\ h_pc' = "idle"
                /\ UNCHANGED h_outbound
           ELSE /\ h_outbound' = BuildOutbound(h_request, content_length[1])
                /\ h_pc' = "forwarding"
                /\ UNCHANGED h_response
    /\ UNCHANGED <<now, tokenVars, h_request, h_reply, h_pending, jobVars>>
    /\ UNCHANGED otherThanProxy

\* lines 120-144: urlopen returns or raises, the caller is answered
HandlerRelay(reply) ==
    /\ h_pc = "forwarding"
    /\ h_reply' = reply
    /\ h_response' = ProxyResponse(h_request.path, reply)
    /\ h_pc' = "idle"
    /\ UNCHANGED <<now, tokenVars, h_request, h_outbound, h_pending, jobVars>>
    /\ UNCHANGED otherThanProxy

ProxyNext ==
    \/ \E token \in FetchResults : JobStartProxy(token)
    \/ ProxyTick
    \/ ClientConnect
    \/ \E request \in ProxyRequests : HandlerAccept(request)
    \/ \E new_token \in FetchResults : HandlerRefreshed(new_token)
    \/ HandlerBuild
    \/ \E reply \in BackendReplies : HandlerRelay(reply)

(***************************************************************************)
(* run_generate_mode (lines 598-720).  The call of run_deepfabric is one   *)
(* step here, with the outcomes SpecSup shows it to have.                  *)
(***************************************************************************)
otherThanJob == <<timeout_seconds, progress_interval, start_time, last_progress_update,
                  pipe, progress_updates, slack_webhook_url, job_name, stdout_open,
                  proc_end, xfVars, pgVars, noteVars, handlerVars, spin_endpoint,
                  token_lock, mainVars>>

\* a section of the config: whether the key is there, and its save_as
MkSection(present, save_as) == [present |-> present, save_as |-> save_as]
MkConfig(topics, output) == [topics |-> topics, output |-> output]
NoSection == MkSection(FALSE, ABSENT)
NoConfig == MkConfig(NoSection, NoSection)

GraphFile == "graph.jsonl"
DatasetFile == "dataset.jsonl"

\* the configs a job may be given
Configs ==
    {MkConfig(MkSection(TRUE, GraphFile), MkSection(TRUE, DatasetFile)),
     MkConfig(MkSection(TRUE, GraphFile), NoSection),
     MkConfig(NoSection, MkSection(TRUE, DatasetFile)),
     MkConfig(MkSection(TRUE, ABSENT), MkSection(TRUE, DatasetFile)),
     MkConfig(MkSection(TRUE, GraphFile), MkSection(TRUE, ABSENT)),
     NoConfig}

\* mutant: the topic graph is declared in every mode
TopicsDeclaredAlways(is_topic_only, topics_load) == TRUE

\* line 243: if topic_only or not topics_load
TopicsDeclared(is_topic_only, topics_load) == is_topic_only \/ ~Truthy(topics_load)

\* get_output_files_from_config (lines 231-252) on the parsed config
get_output_files_from_config(cfg, is_topic_only, topics_load) ==
    (IF TopicsDeclared(is_topic_only, topics_load)
        /\ cfg.topics.present /\ cfg.topics.save_as # ABSENT
     THEN <<cfg.topics.save_as>> ELSE <<>>)
    \o (IF ~is_topic_only /\ cfg.output.present /\ cfg.output.save_as # ABSENT
        THEN <<cfg.output.save_as>> ELSE <<>>)

ColIdle ==
    /\ topic_only = FALSE
    /\ topics_load_gcs = NONE
    /\ local_topics_path = NONE
    /\ config = NoConfig
    /\ expected_outputs = <<>>
    /\ disk = {}
    /\ run_timestamp = <<>>
    /\ upload_idx = 0
    /\ output_files = <<>>
    /\ uploaded = <<>>

\* TOPICS_LOAD as the CLI may set it
TopicsLoadValues == {NONE, "graphs/old.jsonl"}

\* lines 600-611: get_env of a required variable raises ValueError when it is
\* not set; that is before the try block, so nothing is notified
JobReadEnv(complete, is_topic_only, topics_load) ==
    /\ job_pc = "read_env"
    /\ IF complete
       THEN /\ job_pc' = "start_proxy"
            /\ topic_only' = is_topic_only
            /\ topics_load_gcs' = topics_load
            /\ UNCHANGED exit_code
       ELSE /\ job_pc' = "raised"
            /\ exit_code' = <<1>>
            /\ UNCHANGED <<topic_only, topics_load_gcs>>
    /\ UNCHANGED <<now, notifications, tokenVars, sup_pc, proc, returncode,
                   output_lines, sup_result>>
    /\ UNCHANGED <<local_topics_path, config, expected_outputs, disk, uploadVars>>
    /\ UNCHANGED <<otherThanJob, cmd>>

\* lines 634-655: the config is downloaded and rewritten, the topic graph
\* downloaded, the expected outputs and the progress interval read; any of
\* these may raise
JobPrepare(ok, cfg) ==
    /\ job_pc = "download"
    /\ IF ok
       THEN LET topics_path == IF Truthy(topics_load_gcs) THEN "topics.jsonl" ELSE NONE
            IN  /\ job_pc' = "run"
                /\ config' = cfg
                /\ local_topics_path' = topics_path
                /\ expected_outputs' =
                       get_output_files_from_config(cfg, topic_only, topics_path)
                /\ UNCHANGED <<notifications, exit_code>>
       ELSE /\ FailedWith("Exception: download or config")
            /\ UNCHANGED <<config, local_topics_path, expected_outputs>>
    /\ UNCHANGED <<now, tokenVars, sup_pc, proc, returncode, output_lines, sup_result>>
    /\ UNCHANGED <<topic_only, topics_load_gcs, disk, uploadVars>>
    /\ UNCHANGED <<otherThanJob, cmd>>

\* what a call of run_deepfabric leaves: its result, the subprocess and its
\* return code, the lines read
MkOutcome(result, process, rc, lines) ==
    [result |-> result, proc |-> process, returncode |-> rc, lines |-> lines]

RunOutcomes ==
    UNION {{MkOutcome(OutputSuccess(ls), "exited", <<0>>, ls),
            MkOutcome(OutputFailure(ls, 1), "exited", <<1>>, ls)} :
               ls \in {<<LinePlain, LineStep>>}}
        \cup {MkOutcome(OutputFailure(<<>>, 1), "exited", <<1>>, <<>>)}
        \cup {MkOutcome(TimeoutFailure(TimeoutTicks), "killed", <<>>, <<LinePlain>>),
              MkOutcome(ExceptionFailure, "none", <<>>, <<>>),
              MkOutcome(ExceptionFailure, "running", <<>>, <<LineZero>>)}
        \cup {MkOutcome(TimeoutFailure(TimeoutTicks), "exited", <<0>>, <<LinePlain>>),
              MkOutcome(ExceptionFailure, "exited", <<0>>, <<LineZero>>),
              MkOutcome(ExceptionFailure, "exited", <<1>>, <<LineZero>>)}

\* the files the generation tool may leave under work_dir
ToolFiles == {GraphFile, DatasetFile}

\* lines 657-666: success, output = run_deepfabric(...); files is what the
\* subprocess wrote (none when it was never started)
JobRunDeepfabric(outcome, files) ==
    /\ job_pc = "run"
    /\ cmd' = CommandLine(topic_only, local_topics_path)
    /\ outcome.proc = "none" => files = {}
    /\ sup_pc' = "returned"
    /\ sup_result' = outcome.result
    /\ proc' = outcome.proc
    /\ returncode' = outcome.returncode
    /\ output_lines' = outcome.lines
    /\ disk' = files
    /\ job_pc' = "collect"
    /\ UNCHANGED <<now, notifications, exit_code, tokenVars>>
    /\ UNCHANGED <<modeVars, uploadVars>>
    /\ UNCHANGED otherThanJob

\* mutant: the timestamp is taken again for every upload
UploadTimestampPerFile(fixed, current) == current

\* lines 670-671 and 676: output_prefix is built once, before the loop
UploadTimestamp(fixed, current) == fixed

\* line 676 under line 671: f"outputs/{job_name}/{timestamp}/{output_file}"
GcsPath(job, timestamp, output_file) == <<"outputs", job, timestamp, output_file>>

\* lines 679-683: the manifest entry; the url is gs://<bucket>/<blob path>
MkArtifact(blob_path, filename) == [url |-> blob_path, filename |-> filename]

\* lines 668-671: output_files = [], the timestamp and the prefix
JobBeginCollect ==
    /\ job_pc = "collect"
    /\ run_timestamp' = <<now>>
    /\ upload_idx' = 1
    /\ output_files' = <<>>
    /\ job_pc' = "upload"
    /\ UNCHANGED <<now, notifications, exit_code, tokenVars, sup_pc, proc, returncode,
                   output_lines, sup_result, modeVars, disk, uploaded>>
    /\ UNCHANGED <<otherThanJob, cmd>>

\* mutant: a declared output that is missing stops the job
JobUploadNextStrict(ok) ==
    /\ job_pc = "upload"
    /\ upload_idx <= Len(expected_outputs)
    /\ LET output_file == expected_outputs[upload_idx]
           gcs_path == GcsPath(job_name, UploadTimestamp(run_timestamp[1], now), output_file)
       IN  IF output_file \in disk /\ ok
           THEN /\ uploaded' = Append(uploaded, gcs_path)
                /\ output_files' = Append(output_files, MkArtifact(gcs_path, output_file))
                /\ upload_idx' = upload_idx + 1
                /\ UNCHANGED <<job_pc, notifications, exit_code, run_timestamp>>
           ELSE /\ FailedWith("Exception: upload")
                /\ UNCHANGED uploadVars
    /\ UNCHANGED <<now, tokenVars, sup_pc, proc, returncode, output_lines, sup_result,
                   modeVars, disk>>
    /\ UNCHANGED <<otherThanJob, cmd>>

\* lines 673-685, one turn of the loop: a file that exists is uploaded and
\* recorded, or upload_to_gcs raises; a file that is missing is skipped
JobUploadNext(ok) ==
    /\ job_pc = "upload"
    /\ upload_idx <= Len(expected_outputs)
    /\ LET output_file == expected_outputs[upload_idx]
           gcs_path == GcsPath(job_name, UploadTimestamp(run_timestamp[1], now), output_file)
       IN  IF output_file \in disk
           THEN IF ok
                THEN /\ uploaded' = Append(uploaded, gcs_path)
                     /\ output_files' =
                            Append(output_files, MkArtifact(gcs_path, output_file))
                     /\ upload_idx' = upload_idx + 1
                     /\ UNCHANGED <<job_pc, notifications, exit_code, run_timestamp>>
                ELSE /\ FailedWith("Exception: upload")
                     /\ UNCHANGED uploadVars
           ELSE /\ ok
                /\ upload_idx' = upload_idx + 1
                /\ UNCHANGED <<job_pc, notifications, exit_code, run_timestamp,
                               output_files, uploaded>>
    /\ UNCHANGED <<now, tokenVars, sup_pc, proc, returncode, output_lines, sup_result,
                   modeVars, disk>>
    /\ UNCHANGED <<otherThanJob, cmd>>

\* mutant: on failure the process exits before the notification is sent
JobReportExitFirst(delivery) ==
    /\ job_pc = "upload"
    /\ upload_idx > Len(expected_outputs)
    /\ IF sup_result.success
       THEN /\ notifications' =
                   Append(notifications,
                          Sent(MkNotification("success", output_files, NoError), delivery))
            /\ exit_code' = <<0>>
       ELSE /\ notifications' = notifications
            /\ exit_code' = <<1>>
    /\ job_pc' = "exited"
    /\ UNCHANGED <<now, tokenVars, sup_pc, proc, returncode, output_lines, sup_result,
                   colVars>>
    /\ UNCHANGED <<otherThanJob, cmd>>

\* lines 687-704: the terminal notification is sent, the process exits, with
\* status 1 on failure
JobReport(delivery) ==
    /\ job_pc = "upload"
    /\ upload_idx > Len(expected_outputs)
    /\ LET report == Sent(MkNotification(IF sup_result.success THEN "success" ELSE "failed",
                                         output_files,
                                         IF sup_result.success THEN NoError
                                         ELSE ErrorOf(sup_result)),
                          delivery)
       IN  IF NotificationRaises(delivery)
           THEN \* the raise is caught at line 706: a second notification, status 1
                /\ \E second \in Deliveries :
                       notifications' =
                           notifications \o
                               <<report,
                                 Sent(MkNotification("failed", <<>>,
                                                     ExceptionText("Exception: notification")),
                                      second)>>
                /\ exit_code' = <<1>>
           ELSE /\ notifications' = Append(notifications, report)
                /\ exit_code' = IF sup_result.success THEN <<0>> ELSE <<1>>
    /\ job_pc' = "exited"
    /\ UNCHANGED <<now, tokenVars, sup_pc, proc, returncode, output_lines, sup_result,
                   colVars>>
    /\ UNCHANGED <<otherThanJob, cmd>>

\* lines 94-104, seen from the job: a request reaches the proxy when the
\* token is due, get_identity_token returns new_token
JobProxyRequest(new_token) ==
    /\ listening
    /\ exit_code = <<>>
    /\ RefreshDue
    /\ h_new_token' = new_token
    /\ auth_token' = RefreshedToken(auth_token, new_token)
    /\ token_obtained_at' = IF Truthy(new_token) THEN now ELSE token_obtained_at
    /\ last_fetched' = IF Truthy(new_token) THEN new_token ELSE last_fetched
    /\ UNCHANGED <<now, listening, jobVars, colVars, sup_pc, proc, returncode,
                   output_lines, sup_result>>
    /\ UNCHANGED <<otherThanJob, cmd>>

\* the refreshes seen from the job: one that succeeds, one that fails
JobRefreshResults == {"tok-B", NONE}

JobNext ==
    \/ \E complete \in BOOLEAN, is_topic_only \in BOOLEAN, topics_load \in TopicsLoadValues :
           JobReadEnv(complete, is_topic_only, topics_load)
    \/ \E token \in FetchResults : JobStartProxy(token)
    \/ \E ok \in BOOLEAN, cfg \in Configs : JobPrepare(ok, cfg)
    \/ \E outcome \in RunOutcomes, files \in SUBSET ToolFiles :
           JobRunDeepfabric(outcome, files)
    \/ JobBeginCollect
    \/ \E ok \in BOOLEAN : JobUploadNext(ok)
    \/ \E delivery \in Deliveries : JobReport(delivery)
    \/ \E new_token \in JobRefreshResults : JobProxyRequest(new_token)
    \/ ProxyTick

(***************************************************************************)
(* main (lines 723-734) and run_import_tools_mode (lines 558-595).         *)
(***************************************************************************)
otherThanMain == <<supVars, cmd, xfVars, proxyVars, pgVars, noteVars, colVars, job_pc>>

\* what JOB_MODE may hold: nothing, the empty string, the two modes, another word
JobModes == {NONE, "", "generate", "import-tools", "export"}

\* mutant: a value that names no mode runs generate mode
ModeDispatchedDefaulting(value) ==
    IF value = "import-tools" THEN "import-tools" ELSE "generate"

\* lines 725-734: get_env("JOB_MODE", required=False) or "generate", then
\* the if / elif / else on it
ModeDispatched(value) ==
    LET mode == IF Truthy(value) THEN value ELSE "generate"
    IN  IF mode = "import-tools" THEN "import-tools"
        ELSE IF mode = "generate" THEN "generate"
        ELSE "unknown"

\* what run_import_tools returns (lines 358-446): success, output
MkImport(success, output) == [success |-> success, output |-> output]

ImportOutcomes ==
    {MkImport(TRUE, "Successfully loaded 2 tools into Spin"),
     MkImport(FALSE, "Exit code: 1"),
     MkImport(FALSE, "Unexpected tools format: <class 'str'>"),
     MkImport(FALSE, "Could not get identity token for Spin service"),
     MkImport(FALSE, "Spin returned 500: error"),
     MkImport(FALSE, "import-tools timed out after 120 seconds")}

MainInit ==
    /\ job_mode \in JobModes
    /\ main_pc = "main"
    /\ import_result = <<>>

\* main not modelled: run_generate_mode has been entered
MainIdle ==
    /\ job_mode = NONE
    /\ main_pc = "generate"
    /\ import_result = <<>>

\* lines 725-734
MainDispatch ==
    /\ main_pc = "main"
    /\ LET mode == ModeDispatched(job_mode)
       IN  IF mode = "import-tools"
           THEN main_pc' = "import_env" /\ UNCHANGED exit_code
           ELSE IF mode = "generate"
           THEN main_pc' = "generate" /\ UNCHANGED exit_code
           ELSE \* print("Unknown JOB_MODE ..."); sys.exit(1)
                main_pc' = "exited" /\ exit_code' = <<1>>
    /\ UNCHANGED <<job_mode, import_result, notifications>>
    /\ UNCHANGED otherThanMain

\* lines 562-564: SPIN_ENDPOINT is required, and get_env raises ValueError
\* without it: nothing catches it and the interpreter exits with status 1
ImportReadEnv(present) ==
    /\ main_pc = "import_env"
    /\ IF present
       THEN main_pc' = "import_run" /\ UNCHANGED exit_code
       ELSE main_pc' = "exited" /\ exit_code' = <<1>>
    /\ UNCHANGED <<job_mode, import_result, notifications>>
    /\ UNCHANGED otherThanMain

\* line 570: success, output = run_import_tools(spin_endpoint, mcp_command)
ImportRun(outcome) ==
    /\ main_pc = "import_run"
    /\ import_result' = <<outcome>>
    /\ main_pc' = "import_report"
    /\ UNCHANGED <<job_mode, notifications, exit_code>>
    /\ UNCHANGED otherThanMain

\* lines 573-595: the notification, if slack_webhook_url, and the exit
ImportReport(delivery) ==
    /\ main_pc = "import_report"
    /\ LET result == import_result[1]
           report == IF result.success
                     THEN MkNotification("success", <<>>, NoError)
                     ELSE MkNotification("failed", <<>>,
                                         MkError("import", <<>>, 0, result.output))
       IN  /\ notifications' = IF Truthy(slack_webhook_url)
                               THEN Append(notifications, Sent(report, delivery))
                               ELSE notifications
           /\ exit_code' = IF result.success THEN <<0>> ELSE <<1>>
    /\ main_pc' = "exited"
    /\ UNCHANGED <<job_mode, import_result>>
    /\ UNCHANGED otherThanMain

(***************************************************************************)
(* The specifications.                                                     *)
(***************************************************************************)
(***************************************************************************)
(* send_slack_notification as a function of its arguments (lines 255-332). *)
(* A text is described by its length; the text of the error section by     *)
(* the number of leading characters of error_message it holds and by       *)
(* whether the "..." marker follows them.                                  *)
(***************************************************************************)
MaxErrorLen == 510
ErrorThreshold == 500
ErrorKeep == 500

Min(a, b) == IF a < b THEN a ELSE b

MkBlock(type, text, n, marker) == [type |-> type, text |-> text, n |-> n, marker |-> marker]

\* error_message: None is <<>>, a string of n characters is <<n>>
ErrorMessages == {<<>>} \cup {<<n>> : n \in 0..MaxErrorLen}
NoteStatuses == {"success", "failed"}
NoteManifests == {<<>>, <<MkArtifact(<<"outputs", JobName, 0, GraphFile>>, GraphFile)>>}

MkNoteArgs(status, files, error_message) ==
    [status |-> status, output_files |-> files, error_message |-> error_message]
NoNoteArgs == MkNoteArgs("", <<>>, <<>>)

\* mutant: the whole message goes into the section
ErrorTextWhole(error_message) == MkBlock("error", "*Error:*", error_message[1], FALSE)

\* lines 311-318: error_message[:500] + "..." when it is longer than 500
ErrorText(error_message) ==
    IF error_message[1] > ErrorThreshold
    THEN MkBlock("error", "*Error:*", Min(error_message[1], ErrorKeep), TRUE)
    ELSE MkBlock("error", "*Error:*", error_message[1], FALSE)

\* lines 265-330: the blocks, in order
NoteBlocks(args) ==
    <<MkBlock("header",
              IF args.status = "success" THEN "Job Completed" ELSE "Job Failed", 0, FALSE),
      MkBlock("fields", args.status, 0, FALSE)>>
        \o (IF args.output_files # <<>>
            THEN <<MkBlock("outputs", "*Outputs:*", Len(args.output_files), FALSE)>>
            ELSE <<>>)
        \o (IF args.error_message # <<>> /\ args.error_message[1] > 0
            THEN <<ErrorText(args.error_message)>>
            ELSE <<>>)
        \o <<MkBlock("context", "DeepFabric Cloud", 0, FALSE)>>

NoteInit ==
    /\ note_args \in {MkNoteArgs(st, fs, em) :
                          st \in NoteStatuses, fs \in NoteManifests, em \in ErrorMessages}
    /\ note_payload = <<>>

NoteIdle ==
    /\ note_args = NoNoteArgs
    /\ note_payload = <<>>

\* send_slack_notification(...) builds the payload and posts it
NoteSend ==
    /\ note_payload = <<>>
    /\ note_payload' = NoteBlocks(note_args)
    /\ UNCHANGED note_args
    /\ UNCHANGED otherThanNote

NoteNext == NoteSend

InitSup == SupInit /\ XfIdle /\ PgIdle /\ NoteIdle /\ ColIdle /\ MainIdle /\ ProxyInit /\ spin_endpoint[Len(spin_endpoint)] = "/" /\ JobInit
SpecSup == InitSup /\ [][SupNext]_vars

InitXf == XfInit /\ SupIdle /\ PgIdle /\ NoteIdle /\ ColIdle /\ MainIdle /\ ProxyInit /\ spin_endpoint[Len(spin_endpoint)] = "/" /\ JobInit
SpecXf == InitXf /\ [][XfNext]_vars

InitProxy == ProxyInit /\ JobEnvRead /\ SupIdle /\ XfIdle /\ PgIdle /\ NoteIdle /\ ColIdle /\ MainIdle
SpecProxy == InitProxy /\ [][ProxyNext]_vars

InitJob ==
    /\ JobInit /\ ProxyInit /\ SupIdle /\ XfIdle /\ PgIdle /\ NoteIdle /\ ColIdle /\ MainIdle
    /\ spin_endpoint[Len(spin_endpoint)] = "/"
SpecJob == InitJob /\ [][JobNext]_vars

(***************************************************************************)
(* The end-to-end scenario: a full run (TOPIC_ONLY and TOPICS_LOAD unset)  *)
(* of a config that declares both outputs, with run_deepfabric supervising *)
(* a subprocess.                                                           *)
(***************************************************************************)
FullConfig == MkConfig(MkSection(TRUE, GraphFile), MkSection(TRUE, DatasetFile))

\* the lines the subprocess of the scenario prints
RunLines == {LineStep, LineZero}

\* lines 657-666: run_deepfabric has returned; files is what the subprocess
\* left under work_dir (nothing when it was never started)
JobRunReturns(files) ==
    /\ job_pc = "run"
    /\ sup_pc = "returned"
    /\ proc = "none" => files = {}
    /\ disk' = files
    /\ job_pc' = "collect"
    /\ UNCHANGED <<now, notifications, exit_code, tokenVars>>
    /\ UNCHANGED <<sup_pc, sup_result, proc, returncode, output_lines>>
    /\ UNCHANGED <<modeVars, uploadVars>>
    /\ UNCHANGED <<otherThanJob, cmd>>

RunNext ==
    \/ \E complete \in BOOLEAN : JobReadEnv(complete, FALSE, NONE)
    \/ \E token \in FetchResults : JobStartProxy(token)
    \/ \E ok \in BOOLEAN : JobPrepare(ok, FullConfig)
    \/ job_pc = "run" /\ Popen
    \/ job_pc = "run" /\ PopenRaises
    \/ job_pc = "run" /\ SupTick
    \/ \E line \in RunLines : ProcWrite(line)
    \/ ProcCloseStdout
    \/ \E rc \in ExitCodes : ProcExit(rc)
    \/ \E delivery \in Deliveries : job_pc = "run" /\ SupReadLine(delivery)
    \/ job_pc = "run" /\ SupEndOfOutput
    \/ job_pc = "run" /\ SupWaitReturns
    \/ \E files \in SUBSET ToolFiles : JobRunReturns(files)
    \/ JobBeginCollect
    \/ \E ok \in BOOLEAN : JobUploadNext(ok)
    \/ \E delivery \in Deliveries : JobReport(delivery)

InitRun ==
    /\ JobInit /\ ProxyInit /\ SupIdle /\ XfIdle /\ PgIdle /\ NoteIdle /\ ColIdle /\ MainIdle
    /\ spin_endpoint[Len(spin_endpoint)] = "/"
SpecRun == InitRun /\ [][RunNext]_vars

InitNote ==
    /\ NoteInit /\ SupIdle /\ XfIdle /\ PgIdle /\ ColIdle /\ MainIdle /\ ProxyInit /\ JobInit
    /\ spin_endpoint[Len(spin_endpoint)] = "/"
SpecNote == InitNote /\ [][NoteNext]_vars

InitPg ==
    /\ PgInit /\ SupIdle /\ XfIdle /\ NoteIdle /\ ColIdle /\ MainIdle /\ ProxyInit /\ JobInit
    /\ spin_endpoint[Len(spin_endpoint)] = "/"
SpecPg == InitPg /\ [][PgNext]_vars

(***************************************************************************)
(* run_deepfabric over a run long enough for several progress intervals:   *)
(* DEEPFABRIC_TIMEOUT is the whole of the modelled time, and the           *)
(* subprocess prints lines with and without a sample.                      *)
(***************************************************************************)
RateLines == {LinePlain, LineStep, LineStepEarly, LineZero}

RateNext ==
    \/ Popen
    \/ PopenRaises
    \/ SupTick
    \/ \E line \in RateLines : ProcWrite(line)
    \/ ProcCloseStdout
    \/ \E rc \in ExitCodes : ProcExit(rc)
    \/ \E delivery \in Deliveries : SupReadLine(delivery)
    \/ SupEndOfOutput
    \/ SupWaitReturns

InitRate ==
    /\ SupStart(MaxTime) /\ XfIdle /\ PgIdle /\ NoteIdle /\ ColIdle /\ MainIdle /\ ProxyInit /\ JobInit
    /\ spin_endpoint[Len(spin_endpoint)] = "/"
SpecRate == InitRate /\ [][RateNext]_vars

\* run_generate_mode, entered from main: JOB_NAME and SLACK_WEBHOOK_URL are
\* among the variables it requires (lines 603-607)
MainNext ==
    \/ MainDispatch
    \/ \E present \in BOOLEAN : ImportReadEnv(present)
    \/ \E outcome \in ImportOutcomes : ImportRun(outcome)
    \/ \E delivery \in Deliveries : ImportReport(delivery)
    \/ \E complete \in BOOLEAN :
           /\ main_pc = "generate"
           /\ complete => (Truthy(slack_webhook_url) /\ Truthy(job_name))
           /\ JobReadEnv(complete, FALSE, NONE)
    \/ \E token \in FetchResults : main_pc = "generate" /\ JobStartProxy(token)
    \/ \E ok \in BOOLEAN : main_pc = "generate" /\ JobPrepare(ok, FullConfig)
    \/ \E outcome \in RunOutcomes, files \in SUBSET ToolFiles :
           main_pc = "generate" /\ JobRunDeepfabric(outcome, files)
    \/ main_pc = "generate" /\ JobBeginCollect
    \/ \E ok \in BOOLEAN : main_pc = "generate" /\ JobUploadNext(ok)
    \/ \E delivery \in Deliveries : main_pc = "generate" /\ JobReport(delivery)

InitMain ==
    /\ MainInit /\ SupInit /\ XfIdle /\ PgIdle /\ NoteIdle /\ ColIdle /\ ProxyInit /\ JobInit
    /\ spin_endpoint[Len(spin_endpoint)] = "/"
SpecMain == InitMain /\ [][MainNext]_vars

(***************************************************************************)
(* Claims about run_deepfabric, under SpecSup.                             *)
(***************************************************************************)
\* the subprocess ran, or is running, past start_time + timeout_seconds
RanPastDeadline ==
    \/ proc = "running" /\ now - start_time > timeout_seconds
    \/ proc \in {"exited", "killed"} /\ proc_end - start_time > timeout_seconds

\* C1: a subprocess that runs past timeoutSeconds is forcibly terminated and
\* run_deepfabric returns (False, timeout message); the supervisor never stays
\* blocked past the deadline.  As a step property: while the subprocess is
\* running past the deadline the supervisor lets no more time pass, and if it
\* returns, it returns the timeout failure.
C1_TimeoutEnforced ==
    [][(proc = "running" /\ sup_pc \in {"reading", "waiting"} /\ TimedOut)
        => /\ now' = now
           /\ sup_pc' = "returned" => sup_result' = TimeoutFailure(timeout_seconds)]_vars

\* C2: run_deepfabric returns success=True iff the subprocess exited with
\* status zero and no timeout occurred (in every other case it returns
\* success=False).  A timeout occurred when the subprocess ran past
\* start_time + timeout_seconds.
C2_SuccessIffExitZeroNoTimeout ==
    sup_pc = "returned" =>
        (sup_result.success <=> (returncode = <<0>> /\ ~RanPastDeadline))

\* C2, second half: a failure carries the captured combined output or the
\* timeout message.  The code has three more failure details: "Exit code: N"
\* when nothing was captured, and str(e) of a failed launch or extraction.
FailureDetailIsOutputOrTimeout ==
    (sup_pc = "returned" /\ ~sup_result.success) =>
        sup_result \in
            {[success |-> FALSE, kind |-> "output",
              lines |-> JoinLines(output_lines), n |-> 0],
             TimeoutFailure(timeout_seconds)}

(***************************************************************************)
(* Claims about transform_tools_response, under SpecXf.                    *)
(***************************************************************************)
IsNamed(param) == param.name \notin {ABSENT, NONE, ""}
IsFlagged(param) == param.required = <<TRUE>>
NamesOf(params) == [i \in 1..Len(params) |-> params[i].name]

\* the spec's example: {"tools":[{"name":"x","inputSchema":[{"name":"q",
\* "type":"string","required":true}]}]} and what it must become
ExampleIn == MkDoc(TRUE, <<MkTool("x", ABSENT, SchemaList(<<ParamQ>>), ABSENT)>>, ABSENT)
ExampleOut == MkDoc(TRUE, <<MkTool("x", "", SchemaObjQ, ABSENT)>>, ABSENT)

\* C7: for every tool whose inputSchema is a list of parameter objects the
\* output inputSchema is an object of type "object" whose properties has one
\* entry per named parameter, keyed by its name, and whose required list is
\* exactly the names of the parameters flagged required, in input order, and
\* is omitted when none is flagged; the spec's example yields the spec's output.
C7_ListSchemaConverted ==
    (xf_pc = "done" /\ xf_in.hasTools) =>
        /\ \A i \in 1..Len(xf_in.tools) :
               xf_in.tools[i].inputSchema.form = "list" =>
                   LET named == SelectSeq(xf_in.tools[i].inputSchema.params, IsNamed)
                       flagged == NamesOf(SelectSeq(named, IsFlagged))
                       out == xf_out.tools[i].inputSchema
                   IN  /\ out.form = "object"
                       /\ out.type = "object"
                       /\ DictKeys(out.properties) = {named[k].name : k \in 1..Len(named)}
                       /\ Cardinality(DictKeys(out.properties)) = Len(out.properties)
                       /\ out.required = IF flagged = <<>> THEN <<>> ELSE <<flagged>>
        /\ xf_in = ExampleIn => xf_out = ExampleOut

\* a list schema with two named parameters, one of them flagged, was converted
C7_Witness ==
    /\ xf_pc = "done"
    /\ xf_in.hasTools
    /\ \E i \in 1..Len(xf_in.tools) :
           /\ xf_in.tools[i].inputSchema = SchemaList(<<ParamR, ParamQ>>)
           /\ Len(xf_out.tools[i].inputSchema.properties) = 2
           /\ xf_out.tools[i].inputSchema.required = <<(<<"q">>)>>

\* C8: a tool whose inputSchema is already in object form is emitted with
\* that inputSchema unchanged.
C8_ObjectSchemaUnchanged ==
    (xf_pc = "done" /\ xf_in.hasTools) =>
        \A i \in 1..Len(xf_in.tools) :
            xf_in.tools[i].inputSchema.form = "object" =>
                xf_out.tools[i].inputSchema = xf_in.tools[i].inputSchema

\* an object schema with no "type" and a key of its own went through
C8_Witness ==
    /\ xf_pc = "done"
    /\ xf_in.hasTools
    /\ \E i \in 1..Len(xf_in.tools) :
           /\ xf_in.tools[i].inputSchema = SchemaObjLoose
           /\ xf_out.tools[i].inputSchema = SchemaObjLoose

(***************************************************************************)
(* Claims about the auth proxy, under SpecProxy.                           *)
(***************************************************************************)
\* C3: a failed refresh leaves the held token unchanged; once the proxy has
\* started with a valid token the token is never cleared or replaced by an
\* empty value, and every forwarded request carries a non-empty bearer token.
C3_TokenNeverCleared ==
    /\ [](listening => auth_token \notin {NONE, ""})
    /\ [](h_outbound # NoOutbound => h_outbound.token \notin {NONE, ""})
    /\ [][(h_pc = "refreshing" /\ h_new_token' \in {NONE, ""})
              => auth_token' = auth_token]_vars

\* a refresh has failed and the request went out with the token held before
C3_Witness ==
    /\ h_new_token \in {NONE, ""}
    /\ h_outbound # NoOutbound
    /\ h_outbound.token = auth_token
    /\ auth_token \in Tokens

\* C4: every proxied request uses the token of the most recent successful
\* fetch completed before it read the token: no refresh is attempted while
\* the token's age is below the refresh interval, and a completed refresh is
\* seen by the request.
C4_RequestUsesLatestToken ==
    /\ listening => auth_token = last_fetched
    /\ h_outbound # NoOutbound => h_outbound.token = last_fetched
    /\ h_pc = "refreshing" => now - token_obtained_at >= RefreshTicks

\* a refresh replaced the startup token and the request carries the new one
C4_Witness ==
    /\ h_outbound # NoOutbound
    /\ token_obtained_at > 0
    /\ h_new_token \in Tokens
    /\ h_outbound.token = h_new_token

\* the tool-listing endpoint, with or without a query string
ToolListingEndpoint(path) == Len(path) >= 2 /\ SubSeq(path, 1, 2) = PathListTools

C9_ErrorMapping ==
    /\ (h_response.kind = "sent" /\ h_reply.kind = "URLError")
           => (h_response.status = 500 /\ h_response.body = h_reply.body)
    /\ (h_response.kind = "sent" /\ h_reply.kind = "HTTPError")
           => (h_response.status = h_reply.status /\ h_response.body = h_reply.body)
    /\ (h_pc = "idle" /\ h_outbound # NoOutbound) => h_response.kind = "sent"

\* the backend failed a tool-listing request with a tools list as error body
C9_Witness ==
    /\ h_response.kind = "sent"
    /\ h_request.path = PathListTools
    /\ h_reply = MkReply("HTTPError", 500, BodyToolsList)
    /\ h_response.body = BodyToolsList

\* C10: every inbound request, a malformed one included, is answered: an
\* error raised while handling it becomes an error response, no caller is
\* left without a response and no request terminates the process.
C10_EveryRequestAnswered ==
    (h_pc = "idle" /\ h_request # NoRequest)
        => (h_response.kind = "sent" /\ exit_code = <<>>)


(***************************************************************************)
(* C5: when the first token fetch fails the job is over: the listener is   *)
(* not started, the subprocess is not launched, one failed notification is *)
(* sent and the exit code is 1; a step that records a failed refresh       *)
(* leaves the job where it is.                                             *)
(***************************************************************************)
InitialFetchFailed ==
    job_pc \notin {"read_env", "raised", "start_proxy"} /\ ~Truthy(auth_token)

RefreshFailedStep == listening /\ h_new_token' \in {NONE, ""} /\ h_new_token' # h_new_token

C5_InitialFetchFatal ==
    /\ [](InitialFetchFailed =>
             /\ ~listening
             /\ proc = "none"
             /\ sup_pc = "start"
             /\ job_pc = "exited"
             /\ exit_code = <<1>>
             /\ Len(notifications) = 1
             /\ notifications[1].status = "failed")
    /\ []((listening /\ job_pc # "exited") => exit_code = <<>>)
    /\ [][RefreshFailedStep =>
             /\ job_pc' = job_pc
             /\ exit_code' = exit_code
             /\ notifications' = notifications
             /\ listening']_vars

C5_Witness ==
    /\ InitialFetchFailed
    /\ auth_token = NONE
    /\ exit_code = <<1>>
    /\ Len(notifications) = 1
    /\ notifications[1].status = "failed"
    /\ notifications[1].output_files = <<>>
    /\ notifications[1].error = ExceptionText("RuntimeError: Failed to start auth proxy")

\* a refresh has failed and the job went on to run the subprocess
C5_RefreshFailureSurvived ==
    /\ listening
    /\ h_new_token = NONE
    /\ job_pc = "exited"
    /\ exit_code = <<0>>

(***************************************************************************)
(* C11: the outbound request goes to the backend base URL followed by the  *)
(* request path, with the caller's method and body, with the proxy's       *)
(* current token as bearer whatever Authorization the caller sent, and     *)
(* with the caller's Content-Type exactly when the caller sent one.        *)
(***************************************************************************)
BackendBase == <<"https://spin.example">>

C11_OutboundRequest ==
    h_outbound # NoOutbound =>
        /\ h_outbound.url = BackendBase \o h_request.path
        /\ h_outbound.method = h_request.method
        /\ h_outbound.data = (IF h_request.body = "" THEN NONE ELSE h_request.body)
        /\ h_outbound.token = auth_token
        /\ h_outbound.token \in Tokens
        /\ h_outbound.content_type = h_request.content_type

\* a caller that sent its own Authorization, a Content-Type and a body, through
\* a base URL configured with a trailing slash
C11_Witness ==
    /\ h_outbound # NoOutbound
    /\ spin_endpoint = <<"https://spin.example", "/">>
    /\ h_request.authorization = "Bearer caller"
    /\ h_request.content_type = "application/json"
    /\ h_outbound.data = "hello"
    /\ h_outbound.method = "POST"

(***************************************************************************)
(* C12: whenever a line of the window matches the counted pattern, the     *)
(* result is the counted sample of the most recent such line, even if a    *)
(* more recent line mentions topic progress.  Stated here for the windows  *)
(* whose counted lines all have a total other than zero.                   *)
(***************************************************************************)
IsCounted(line) == line.hasTotal /\ line.hasSlash /\ line.m # <<>>

CountedAt(lines) == {i \in 1..Len(lines) : IsCounted(lines[i])}

Max(S) == CHOOSE x \in S : \A y \in S : y <= x

C12_CountedBeforeTopic ==
    (pg_results # <<>> /\ CountedAt(pg_given) # {}
         /\ \A i \in CountedAt(pg_given) : pg_given[i].m[2] # 0)
        => LET line == pg_given[Max(CountedAt(pg_given))]
           IN  pg_results[1] = ProgressSamples(line.m[1], line.m[2])

(***************************************************************************)
(* C13: with "Step 244: +4 (total 976/10000)" as the most recent matching  *)
(* line, the sample has current 976, total 10000 and the percentage        *)
(* current * 100 / total = 9.76; the returned text shows it with one       *)
(* decimal, 9.8.                                                           *)
(***************************************************************************)
IsTopic(line) == line.hasTopic /\ line.hasSlash

MostRecentMatchIsStep(lines) ==
    \E i \in 1..Len(lines) :
        /\ lines[i] = LineStep
        /\ \A j \in (i + 1)..Len(lines) : ~IsCounted(lines[j]) /\ ~IsTopic(lines[j])

C13_StepExample ==
    (pg_results # <<>> /\ MostRecentMatchIsStep(pg_given))
        => /\ pg_results[1].kind = "samples"
           /\ pg_results[1].current = 976
           /\ pg_results[1].total = 10000
           /\ pg_results[1].pct = 976
           /\ pg_results[1].pct * pg_results[1].total = pg_results[1].current * 10000
           /\ pg_results[1].shown = 98

\* the example line followed by a line that matches nothing, after an older
\* line that would match
C13_Witness ==
    /\ pg_results # <<>>
    /\ pg_given = <<LineTopic, LineStep, LinePlain>>
    /\ pg_results[1].pct = 976

NoMatchCycle ==
    /\ sup_pc = "reading"
    /\ pipe # <<>>
    /\ ~TimedOut
    /\ ProgressDue
    /\ output_lines' = Append(output_lines, Head(pipe))
    /\ extract_progress(LastN(output_lines', WindowLines)) = ProgressNone

C15_NoMatchNoNotification ==
    [][NoMatchCycle =>
           /\ progress_updates' = progress_updates
           /\ sup_pc' = "reading"
           /\ sup_result' = sup_result
           /\ proc' = proc
           /\ returncode' = returncode
           /\ last_progress_update' = now]_vars

\* a cycle found nothing and the run went on to succeed
C15_Witness ==
    /\ sup_pc = "returned"
    /\ sup_result.success
    /\ last_progress_update > start_time
    /\ progress_updates = <<>>
    /\ Truthy(slack_webhook_url)
    /\ Truthy(job_name)

(***************************************************************************)
(* C16: while the subprocess runs the window is scanned every progress     *)
(* interval whether or not output arrives: with notifications configured,  *)
(* the supervisor is never reading with the last scan older than the       *)
(* interval by more than one tick.                                         *)
(***************************************************************************)
C16_ScanOnCadence ==
    (proc = "running" /\ sup_pc = "reading" /\ Truthy(slack_webhook_url)
         /\ Truthy(job_name))
        => now - last_progress_update <= progress_interval + 1

(***************************************************************************)
(* C17: after the subprocess has ended, an artifact is recorded and        *)
(* uploaded for a declared output exactly when the file exists under the   *)
(* scratch directory: none for a missing path, and every existing declared *)
(* path uploaded and recorded, whatever the subprocess's result.           *)
(***************************************************************************)
InDisk(output_file) == output_file \in disk

ExistingDeclared == SelectSeq(expected_outputs, InDisk)

BlobNames(paths) == [i \in 1..Len(paths) |-> paths[i][4]]

FileNames(artifacts) == [i \in 1..Len(artifacts) |-> artifacts[i].filename]

Collected == job_pc = "exited" /\ run_timestamp # <<>> /\ proc # "running"

C17_ArtifactIffExists ==
    /\ \A i \in 1..Len(output_files) : output_files[i].filename \in disk
    /\ \A i \in 1..Len(uploaded) : uploaded[i][4] \in disk
    /\ Collected =>
           /\ BlobNames(uploaded) = ExistingDeclared
           /\ FileNames(notifications[Len(notifications)].output_files) = ExistingDeclared

\* the same, for the runs in which no call of upload_to_gcs raised
ArtifactIffExistsWhenUploadsReturn ==
    /\ \A i \in 1..Len(output_files) : output_files[i].filename \in disk
    /\ \A i \in 1..Len(uploaded) : uploaded[i][4] \in disk
    /\ (Collected /\ notifications[Len(notifications)].error # ExceptionText("Exception: upload")) =>
           /\ BlobNames(uploaded) = ExistingDeclared
           /\ FileNames(notifications[Len(notifications)].output_files) = ExistingDeclared

(***************************************************************************)
(* C18: the declared outputs are the topic-graph path alone in a           *)
(* topic-only run, the dataset path alone in a run resumed from a topic    *)
(* graph, and both, topic graph first, in a full run; each only if the     *)
(* config declares it.                                                     *)
(***************************************************************************)
DeclaredIn(section) ==
    IF section.present /\ section.save_as # ABSENT THEN <<section.save_as>> ELSE <<>>

Prepared == job_pc \in {"run", "collect", "upload"} \/ run_timestamp # <<>>

C18_DeclaredOutputsByMode ==
    Prepared =>
        expected_outputs =
            IF topic_only THEN DeclaredIn(config.topics)
            ELSE IF topics_load_gcs # NONE THEN DeclaredIn(config.output)
            ELSE DeclaredIn(config.topics) \o DeclaredIn(config.output)

\* a resumed run of a config that declares both outputs
C18_Witness ==
    /\ Prepared
    /\ ~topic_only
    /\ topics_load_gcs # NONE
    /\ config = MkConfig(MkSection(TRUE, GraphFile), MkSection(TRUE, DatasetFile))
    /\ expected_outputs = <<DatasetFile>>

(***************************************************************************)
(* C19: a declared output that is missing after the run is left out of the *)
(* manifest and changes nothing else: the loop goes on, and the kind of    *)
(* the terminal notification and the exit code follow the supervisor's     *)
(* result alone.                                                           *)
(***************************************************************************)
AtMissingOutput ==
    /\ job_pc = "upload"
    /\ upload_idx <= Len(expected_outputs)
    /\ expected_outputs[upload_idx] \notin disk

ReportedAfterCollecting ==
    /\ job_pc = "exited"
    /\ run_timestamp # <<>>
    /\ notifications[Len(notifications)].error # ExceptionText("Exception: upload")

C19_MissingOutputNotFatal ==
    /\ [][AtMissingOutput =>
              /\ job_pc' = "upload"
              /\ exit_code' = exit_code
              /\ notifications' = notifications
              /\ output_files' = output_files
              /\ uploaded' = uploaded]_vars
    /\ [](ReportedAfterCollecting =>
              /\ notifications[Len(notifications)].status =
                     (IF sup_result.success THEN "success" ELSE "failed")
              /\ exit_code = (IF sup_result.success THEN <<0>> ELSE <<1>>)
              /\ \A i \in 1..Len(notifications[Len(notifications)].output_files) :
                     notifications[Len(notifications)].output_files[i].filename \in disk)

\* a successful full run that left the dataset but not the topic graph
C19_Witness ==
    /\ job_pc = "exited"
    /\ expected_outputs = <<GraphFile, DatasetFile>>
    /\ disk = {DatasetFile}
    /\ sup_result.success
    /\ exit_code = <<0>>
    /\ notifications[Len(notifications)].status = "success"
    /\ FileNames(notifications[Len(notifications)].output_files) = <<DatasetFile>>

(***************************************************************************)
(* C20: every blob path written by one run is                              *)
(* outputs/<job name>/<run timestamp>/<declared path>, with the one        *)
(* timestamp taken before the first upload.                                *)
(***************************************************************************)
C20_OneRunPrefix ==
    \A i \in 1..Len(uploaded) :
        /\ Len(uploaded[i]) = 4
        /\ uploaded[i][1] = "outputs"
        /\ uploaded[i][2] = job_name
        /\ uploaded[i][3] = run_timestamp[1]
        /\ uploaded[i][4] \in {expected_outputs[j] : j \in 1..Len(expected_outputs)}
        /\ output_files[i].url = uploaded[i]
        /\ uploaded[i][3] = uploaded[1][3]

\* two uploads, the clock having moved on since the timestamp was taken
C20_Witness ==
    /\ Len(uploaded) = 2
    /\ run_timestamp # <<>>
    /\ now > run_timestamp[1]
    /\ uploaded[1][4] # uploaded[2][4]

(***************************************************************************)
(* C28: the token lock is held only while the token value is read or       *)
(* written: no thread holds it while it performs network I/O, such as the  *)
(* call of the identity endpoint.                                          *)
(***************************************************************************)
\* the handler is inside get_identity_token, or inside urlopen
InNetworkIO == h_pc \in {"refreshing", "forwarding"}

C28_NoLockAcrossNetworkIO == InNetworkIO => token_lock = "free"

(***************************************************************************)
(* C29: every read and every write of the token after startup happens      *)
(* with the token lock held; no handler reads the token outside the        *)
(* lock-guarded section.                                                   *)
(***************************************************************************)
\* the step that builds the Authorization header reads _auth_token
ReadsToken == h_outbound' # h_outbound /\ h_outbound' # NoOutbound

WritesToken == listening /\ auth_token' # auth_token

C29_TokenAccessUnderLock ==
    [][(ReadsToken \/ WritesToken) => token_lock = "handler"]_vars

(***************************************************************************)
(* C30: request handling is one task per connection: a request waiting for *)
(* the backend's response does not keep another connection from being      *)
(* taken, so no connection is left waiting while the handler is inside     *)
(* urlopen and time passes.                                                *)
(***************************************************************************)
C30_RequestsHandledConcurrently ==
    [][(h_pc = "forwarding" /\ h_pending > 0) => now' = now]_vars

(***************************************************************************)
(* C22: every fatal error, a missing or malformed job specification at     *)
(* startup and a failed initial token fetch included, has a failure        *)
(* notification attempted before the process exits with a non-zero status. *)
(***************************************************************************)
ExitedNonZero == exit_code # <<>> /\ exit_code # <<0>>

C22_FatalErrorReported ==
    ExitedNonZero =>
        /\ notifications # <<>>
        /\ notifications[Len(notifications)].status = "failed"

\* the same, for the errors raised inside the try block of lines 628-704
FatalErrorInTryReported ==
    (ExitedNonZero /\ job_pc # "raised") =>
        /\ notifications # <<>>
        /\ notifications[Len(notifications)].status = "failed"

(***************************************************************************)
(* C23: the exit code is 0 exactly when the supervisor returned success,   *)
(* whatever happens during artifact upload and notification.               *)
(***************************************************************************)
C23_ExitMirrorsSupervisor ==
    (job_pc = "exited" /\ sup_pc = "returned") =>
        (exit_code = <<0>> <=> sup_result.success)

\* the half that holds: an exit with status 0 follows a successful subprocess
ExitZeroOnlyOnSuccess ==
    exit_code = <<0>> => (sup_pc = "returned" /\ sup_result.success)

(***************************************************************************)
(* C24: a full run of a config that declares both outputs, whose           *)
(* subprocess creates both files and exits 0, uploads exactly two          *)
(* artifacts, sends exactly one terminal notification, a success one, and  *)
(* exits 0.  The scenario is read with every upload answered and the       *)
(* subprocess inside its time limit.                                       *)
(***************************************************************************)
LastNotification == notifications[Len(notifications)]

ScenarioEnded(rc, files) ==
    /\ job_pc = "exited"
    /\ config = FullConfig
    /\ ~topic_only
    /\ topics_load_gcs = NONE
    /\ returncode = <<rc>>
    /\ disk = files
    /\ run_timestamp # <<>>
    /\ sup_result.kind # "timeout"
    /\ LastNotification.error # ExceptionText("Exception: upload")

C24_EndToEndSuccess ==
    ScenarioEnded(0, ToolFiles) =>
        /\ Len(uploaded) = 2
        /\ Len(notifications) = 1
        /\ LastNotification.status = "success"
        /\ exit_code = <<0>>

\* the same, for the runs in which the supervisor returned success
EndToEndSuccessWhenSupervisorSucceeds ==
    (ScenarioEnded(0, ToolFiles) /\ sup_result.success) =>
        /\ Len(uploaded) = 2
        /\ Len(notifications) = 1
        /\ LastNotification.status = "success"
        /\ LastNotification.output_files =
               <<MkArtifact(uploaded[1], GraphFile), MkArtifact(uploaded[2], DatasetFile)>>
        /\ exit_code = <<0>>

(***************************************************************************)
(* C25: the same run with a subprocess that exits 1 and creates no files   *)
(* uploads nothing, sends exactly one terminal notification, a failure one *)
(* whose error message is the captured output of the subprocess, and       *)
(* exits 1.                                                                *)
(***************************************************************************)
C25_EndToEndFailure ==
    ScenarioEnded(1, {}) =>
        /\ uploaded = <<>>
        /\ Len(notifications) = 1
        /\ LastNotification.status = "failed"
        /\ LastNotification.output_files = <<>>
        /\ output_lines # <<>> =>
               /\ LastNotification.error.kind = "output"
               /\ LastNotification.error.lines = JoinLines(output_lines)
        /\ exit_code = <<1>>

\* the same, for the runs in which the supervisor saw the subprocess end
EndToEndFailureWhenSupervisorWaited ==
    (ScenarioEnded(1, {}) /\ sup_result.kind # "exception") =>
        /\ uploaded = <<>>
        /\ Len(notifications) = 1
        /\ LastNotification.status = "failed"
        /\ LastNotification.output_files = <<>>
        /\ LastNotification.error = ErrorOf(OutputFailure(output_lines, 1))
        /\ exit_code = <<1>>

(***************************************************************************)
(* C21: a notification that cannot be delivered, a progress update or a    *)
(* terminal one, the webhook unreachable or answering with an error        *)
(* status, is swallowed: sending a progress update leaves the supervisor   *)
(* running with its result untouched, and the step that sends a terminal   *)
(* notification sends exactly one and sets the exit code from the          *)
(* supervisor's result alone.                                              *)
(***************************************************************************)
ReportsAfterCollecting ==
    /\ job_pc = "upload"
    /\ upload_idx > Len(expected_outputs)

C21_DeliveryFailureSwallowed ==
    /\ [][progress_updates' # progress_updates =>
              /\ sup_pc' = sup_pc
              /\ sup_result' = sup_result
              /\ job_pc' = job_pc
              /\ exit_code' = exit_code]_vars
    /\ [][notifications' # notifications =>
              /\ Len(notifications') = Len(notifications) + 1
              /\ sup_result' = sup_result
              /\ notifications'[Len(notifications')].status =
                     IF ReportsAfterCollecting /\ sup_result.success
                     THEN "success" ELSE "failed"
              /\ exit_code' =
                     IF ReportsAfterCollecting /\ sup_result.success
                     THEN <<0>> ELSE <<1>>]_vars

\* a successful run whose progress update met an unreachable webhook and
\* whose terminal notification was answered with an error status
C21_Witness ==
    /\ job_pc = "exited"
    /\ exit_code = <<0>>
    /\ sup_result.success
    /\ progress_updates # <<>>
    /\ progress_updates[1].delivery = "unreachable"
    /\ Len(notifications) = 1
    /\ LastNotification.status = "success"
    /\ LastNotification.delivery = "http-500"

(***************************************************************************)
(* C26: the steps of a job come in this order: the proxy is started with a *)
(* valid token, the config is downloaded and rewritten, the subprocess is  *)
(* run, the declared outputs are uploaded, the terminal report is sent,    *)
(* the process exits; a failed subprocess makes the process exit non-zero  *)
(* only with the terminal report sent.                                     *)
(***************************************************************************)
ProxyStarted == listening /\ Truthy(auth_token)
ConfigPrepared == config = FullConfig /\ expected_outputs = <<GraphFile, DatasetFile>>
SubprocessRun == sup_pc = "returned"
Collecting == run_timestamp # <<>>
OutputsUploaded == upload_idx > Len(expected_outputs)

C26_StepsInOrder ==
    /\ job_pc \in {"download", "run", "collect", "upload"} => ProxyStarted
    /\ ConfigPrepared => ProxyStarted
    /\ sup_pc # "start" => ConfigPrepared
    /\ Collecting => SubprocessRun
    /\ uploaded # <<>> => Collecting
    /\ (Collecting /\ notifications # <<>>
          /\ LastNotification.error # ExceptionText("Exception: upload")) => OutputsUploaded
    /\ notifications # <<>> => job_pc = "exited"
    /\ (job_pc = "exited") <=> (exit_code # <<>> /\ notifications # <<>>)
    /\ (job_pc = "exited" /\ SubprocessRun /\ ~sup_result.success) =>
           /\ exit_code = <<1>>
           /\ Len(notifications) = 1
           /\ LastNotification.status = "failed"
           /\ LastNotification.error # ExceptionText("Exception: upload") =>
                  LastNotification.error = ErrorOf(sup_result)

\* the subprocess exited 1 after writing the topic graph: the graph is
\* uploaded, the failure is reported, the process exits 1
C26_Witness ==
    /\ job_pc = "exited"
    /\ ProxyStarted
    /\ ConfigPrepared
    /\ returncode = <<1>>
    /\ sup_result.kind = "output"
    /\ ~sup_result.success
    /\ disk = {GraphFile}
    /\ Len(uploaded) = 1
    /\ Len(notifications) = 1
    /\ LastNotification.status = "failed"
    /\ exit_code = <<1>>

(***************************************************************************)
(* C27: the error section of a terminal notification holds at most 500     *)
(* characters of the error message, whatever its length: the message       *)
(* itself up to 500 characters, its first 500 characters and the marker    *)
(* beyond; there is no error section without a message.                    *)
(***************************************************************************)
ErrorSections(payload) == {i \in 1..Len(payload) : payload[i].type = "error"}

C27_ErrorSectionAtMost500 ==
    note_payload # <<>> =>
        IF note_args.error_message = <<>> \/ note_args.error_message = <<0>>
        THEN ErrorSections(note_payload) = {}
        ELSE /\ Cardinality(ErrorSections(note_payload)) = 1
             /\ \A i \in ErrorSections(note_payload) :
                    /\ note_payload[i].n <= 500
                    /\ note_payload[i].n = Min(note_args.error_message[1], 500)
                    /\ note_payload[i].marker <=> note_args.error_message[1] > 500

\* a message of 501 characters: 500 of them and the marker are shown
C27_Witness ==
    /\ note_args.error_message = <<501>>
    /\ note_payload # <<>>
    /\ \E i \in ErrorSections(note_payload) :
           note_payload[i].n = 500 /\ note_payload[i].marker

(***************************************************************************)
(* C31: the token is refreshed by a background task on a fixed interval:   *)
(* once the interval has passed since the last successful fetch a refresh  *)
(* is attempted whether or not a request arrives, and no request waits for *)
(* a refresh to complete.                                                  *)
(***************************************************************************)
NeverRefreshed == h_new_token = ABSENT

\* a request has been accepted and is held until get_identity_token returns
RequestWaitsForRefresh == h_pc = "refreshing" /\ h_request # NoRequest

C31_BackgroundRefresh ==
    /\ (listening /\ exit_code = <<>> /\ NeverRefreshed) =>
           now - token_obtained_at <= RefreshTicks + 1
    /\ ~RequestWaitsForRefresh

\* what the code does instead: a refresh is attempted only by a request
\* that finds the token due
RefreshOnlyOnRequest ==
    [][h_new_token' # h_new_token \/ token_obtained_at' # token_obtained_at =>
           \/ ~listening
           \/ h_pc = "refreshing" /\ h_request # NoRequest /\ RefreshDue]_vars

(***************************************************************************)
(* C32: the supervisor kills the subprocess on timeout expiry and on       *)
(* nothing else: a subprocess is killed only by a step taken with the      *)
(* deadline exceeded, which returns the timeout result; in a run whose     *)
(* deadline is not exceeded it is never killed.                            *)
(***************************************************************************)
DeadlineExceeded == now - start_time > timeout_seconds

C32_KilledOnlyOnTimeout ==
    /\ [][(proc # "killed" /\ proc' = "killed") =>
              /\ DeadlineExceeded
              /\ sup_result' = TimeoutFailure(timeout_seconds)]_vars
    /\ [](proc = "killed" =>
              /\ proc_end - start_time > timeout_seconds
              /\ sup_result = TimeoutFailure(timeout_seconds))
    /\ [](~DeadlineExceeded => proc # "killed")

\* the subprocess was running past the deadline and has been killed
C32_Witness ==
    /\ proc = "killed"
    /\ sup_pc = "returned"
    /\ returncode = <<>>
    /\ proc_end - start_time = timeout_seconds + 1

(***************************************************************************)
(* C33: when run_deepfabric returns, the subprocess has exited or been     *)
(* killed, for every sequence of output lines, a line such as              *)
(* "total 5/0" included: no result is reported, and the job does not go    *)
(* on to upload and report, while the subprocess is still running.         *)
(***************************************************************************)
C33_NoResultWhileRunning ==
    /\ sup_pc = "returned" => proc # "running"
    /\ job_pc \in {"collect", "upload"} => proc # "running"
    /\ notifications # <<>> => proc # "running"

\* the same, for the returns that are not from the except block
NoResultWhileRunningUnlessRaised ==
    (sup_pc = "returned" /\ sup_result.kind # "exception") => proc \in {"exited", "killed"}

(***************************************************************************)
(* C34: on every path of generate mode that starts after the job           *)
(* specification has been read, exactly one terminal notification is       *)
(* attempted before the process exits: never none, and never a success     *)
(* and a failure notification both.                                        *)
(***************************************************************************)
SpecificationRead == job_pc \notin {"read_env", "raised"}

C34_ExactlyOneTerminalNotification ==
    /\ Len(notifications) <= 1
    /\ (SpecificationRead /\ exit_code # <<>>) => Len(notifications) = 1
    /\ notifications # <<>> => (exit_code # <<>> /\ job_pc = "exited")
    /\ notifications # <<>> =>
           (notifications[1].status = "success" <=> exit_code = <<0>>)

\* a successful subprocess whose upload raised: the failure notification
\* of the except block is the only one
C34_Witness ==
    /\ job_pc = "exited"
    /\ sup_result.success
    /\ Len(notifications) = 1
    /\ notifications[1].status = "failed"
    /\ notifications[1].error = ExceptionText("Exception: upload")
    /\ exit_code = <<1>>

(***************************************************************************)
(* C35: every artifact uploaded during a run is listed in the manifest of  *)
(* the run's terminal notification, also when a later upload fails; and a  *)
(* success notification means every declared output that exists on disk    *)
(* was uploaded and listed.                                                *)
(***************************************************************************)
Listed(manifest, blob_path) == \E j \in 1..Len(manifest) : manifest[j].url = blob_path

C35_UploadedAreListed ==
    (job_pc = "exited" /\ notifications # <<>>) =>
        /\ \A i \in 1..Len(uploaded) : Listed(LastNotification.output_files, uploaded[i])
        /\ LastNotification.status = "success" =>
               /\ BlobNames(uploaded) = ExistingDeclared
               /\ FileNames(LastNotification.output_files) = ExistingDeclared

\* the part that holds: the manifest of a notification sent after the loop,
\* and so of every success notification, lists exactly what was uploaded
ManifestCompleteAfterLoop ==
    (job_pc = "exited" /\ notifications # <<>>
        /\ (LastNotification.status = "success"
               \/ LastNotification.error # ExceptionText("Exception: upload"))) =>
        /\ \A i \in 1..Len(uploaded) : Listed(LastNotification.output_files, uploaded[i])
        /\ BlobNames(uploaded) = ExistingDeclared
        /\ FileNames(LastNotification.output_files) = ExistingDeclared

(***************************************************************************)
(* C36: transform_tools_response is idempotent and keeps the shape of the  *)
(* tool list: transforming its output again changes nothing; the output    *)
(* has as many tools as the input, in the same order, with the same names; *)
(* and in every schema it produces from a parameter list, required is a    *)
(* subset of the keys of properties, a parameter with a missing or empty   *)
(* name being in neither.                                                  *)
(***************************************************************************)
RequiredNames(schema) ==
    IF schema.required = <<>> THEN {}
    ELSE {schema.required[1][k] : k \in 1..Len(schema.required[1])}

C36_IdempotentShapePreserving ==
    xf_pc = "done" =>
        /\ transform_tools_response(xf_out) = xf_out
        /\ xf_out.hasTools = xf_in.hasTools
        /\ xf_in.hasTools =>
               /\ Len(xf_out.tools) = Len(xf_in.tools)
               /\ \A i \in 1..Len(xf_in.tools) :
                      /\ xf_out.tools[i].name = Get(xf_in.tools[i].name, "")
                      /\ xf_in.tools[i].inputSchema.form = "list" =>
                             LET out == xf_out.tools[i].inputSchema
                             IN  /\ RequiredNames(out) \subseteq DictKeys(out.properties)
                                 /\ "" \notin DictKeys(out.properties)
                                 /\ ABSENT \notin DictKeys(out.properties)

\* two tools, the first without a name and with a flagged parameter that
\* has no name next to a flagged one that has
C36_Witness ==
    /\ xf_pc = "done"
    /\ xf_in.hasTools
    /\ Len(xf_in.tools) = 2
    /\ xf_in.tools[1].name = ABSENT
    /\ xf_in.tools[1].inputSchema = SchemaList(<<ParamNoName, ParamQ>>)
    /\ xf_out.tools[1].name = ""
    /\ xf_out.tools[1].inputSchema.required = <<(<<"q">>)>>
    /\ DictKeys(xf_out.tools[1].inputSchema.properties) = {"q"}
    /\ xf_out.tools[2].name = "y"

(***************************************************************************)
(* C37: for every combination of topic_only and resume artifact the        *)
(* command line of the generation tool has at most one of --topic-only     *)
(* and --topics-load, --topic-only taking precedence, and the declared     *)
(* outputs agree with the flag passed: the topic graph alone with          *)
(* --topic-only, the dataset alone with --topics-load, both with neither.  *)
(***************************************************************************)
HasFlag(flag) == \E i \in 1..Len(cmd) : cmd[i] = flag

C37_FlagsAgreeWithOutputs ==
    cmd # <<>> =>
        /\ ~(HasFlag("--topic-only") /\ HasFlag("--topics-load"))
        /\ HasFlag("--topic-only") <=> topic_only
        /\ HasFlag("--topics-load") <=> (~topic_only /\ Truthy(topics_load_gcs))
        /\ HasFlag("--topic-only") => expected_outputs = DeclaredIn(config.topics)
        /\ HasFlag("--topics-load") =>
               /\ expected_outputs = DeclaredIn(config.output)
               /\ cmd[Len(cmd)] = local_topics_path
        /\ (~HasFlag("--topic-only") /\ ~HasFlag("--topics-load")) =>
               expected_outputs = DeclaredIn(config.topics) \o DeclaredIn(config.output)

\* TOPIC_ONLY=true together with TOPICS_LOAD: --topic-only alone is passed
\* and the topic graph alone is declared
C37_Witness ==
    /\ cmd # <<>>
    /\ topic_only
    /\ Truthy(topics_load_gcs)
    /\ HasFlag("--topic-only")
    /\ ~HasFlag("--topics-load")
    /\ config = MkConfig(MkSection(TRUE, GraphFile), MkSection(TRUE, DatasetFile))
    /\ expected_outputs = <<GraphFile>>

(***************************************************************************)
(* C38: progress notifications are rate-limited and window-bounded: two    *)
(* consecutive progress notifications of a run are more than the progress  *)
(* interval apart; the interval timer restarts after every scan, whether   *)
(* or not it found a sample; a sample is taken from the most recent lines  *)
(* of the output at the time of the scan, the window, and from the newest  *)
(* of them that holds one; and no progress notification is sent without a  *)
(* webhook URL or without a job name.                                      *)
(***************************************************************************)
NotificationsConfigured == Truthy(slack_webhook_url) /\ Truthy(job_name)

\* a line is read with the timer expired and the scan of the window returns
ScanCompleted ==
    /\ sup_pc = "reading"
    /\ sup_pc' = "reading"
    /\ Len(output_lines') = Len(output_lines) + 1
    /\ NotificationsConfigured
    /\ now - last_progress_update > progress_interval

HoldsSample(line) == extract_progress(<<line>>) # ProgressNone

\* the sample is that of a line of the window with no sample in a newer line
SampleFromWindow(lines, progress_info) ==
    \E k \in 1..Len(lines) :
        /\ k > Len(lines) - WindowLines
        /\ extract_progress(<<lines[k]>>) = progress_info
        /\ \A j \in (k + 1)..Len(lines) : ~HoldsSample(lines[j])

C38_RateLimitedWindowBounded ==
    /\ [](\A i \in 2..Len(progress_updates) :
              progress_updates[i].at - progress_updates[i - 1].at > progress_interval)
    /\ [](~NotificationsConfigured => progress_updates = <<>>)
    /\ [][ScanCompleted => last_progress_update' = now]_vars
    /\ [][progress_updates' # progress_updates =>
              /\ ScanCompleted
              /\ Len(progress_updates') = Len(progress_updates) + 1
              /\ SubSeq(progress_updates', 1, Len(progress_updates)) = progress_updates
              /\ progress_updates'[Len(progress_updates')].at = now
              /\ SampleFromWindow(output_lines',
                                  progress_updates'[Len(progress_updates')].progress)]_vars

\* two notifications one tick more than the interval apart, the second
\* from a window that no longer holds the first line of the output
C38_Witness ==
    /\ Len(progress_updates) = 2
    /\ progress_updates[2].at - progress_updates[1].at = progress_interval + 1
    /\ Len(output_lines) > WindowLines
    /\ progress_updates[2].progress.kind = "samples"
    /\ last_progress_update = progress_updates[2].at

(***************************************************************************)
(* C39: main dispatches on JOB_MODE: unset or empty runs generate mode,    *)
(* "import-tools" runs import-tools mode, and any other value exits        *)
(* non-zero without starting the proxy, launching a subprocess, or sending *)
(* a notification; in import-tools mode the process exits non-zero if and  *)
(* only if the import failed, and a notification is sent only when a       *)
(* webhook URL is configured.                                              *)
(***************************************************************************)
\* the step of main from a JOB_MODE that is to run generate mode exactly when
\* it is one of the given values
DispatchStep(generate_values) ==
    main_pc = "main" =>
        /\ job_mode \in generate_values => (main_pc' = "generate" /\ exit_code' = <<>>)
        /\ job_mode = "import-tools" => (main_pc' = "import_env" /\ exit_code' = <<>>)
        /\ job_mode \notin generate_values \cup {"import-tools"} =>
               (main_pc' = "exited" /\ exit_code' = <<1>>)

\* no proxy, no subprocess, no notification, no import
NothingStarted ==
    /\ ~listening
    /\ auth_token = NONE
    /\ job_pc = "read_env"
    /\ sup_pc = "start"
    /\ proc = "none"
    /\ cmd = <<>>
    /\ notifications = <<>>
    /\ import_result = <<>>

RejectedOtherThan(generate_values) ==
    (job_mode \notin generate_values \cup {"import-tools"}) =>
        /\ NothingStarted
        /\ main_pc \in {"main", "exited"}
        /\ main_pc = "exited" <=> exit_code = <<1>>

ImportFailed == import_result = <<>> \/ ~import_result[1].success

ImportToolsMode ==
    job_mode = "import-tools" =>
        /\ main_pc # "generate"
        /\ job_pc = "read_env" /\ ~listening /\ sup_pc = "start"
        /\ main_pc = "exited" <=> exit_code # <<>>
        /\ exit_code # <<>> => (exit_code # <<0>> <=> ImportFailed)
        /\ exit_code \in {<<>>, <<0>>, <<1>>}
        /\ notifications # <<>> =>
               /\ Truthy(slack_webhook_url)
               /\ Len(notifications) = 1
               /\ import_result # <<>>
               /\ notifications[1].status = "success" <=> import_result[1].success

GenerateMode(generate_values) ==
    job_mode \in generate_values =>
        /\ main_pc \in {"main", "generate"}
        /\ import_result = <<>>
        /\ main_pc = "main" => NothingStarted

C39_DispatchOnJobMode ==
    /\ [][DispatchStep({NONE, ""})]_vars
    /\ [](GenerateMode({NONE, ""}))
    /\ [](RejectedOtherThan({NONE, ""}))
    /\ [](ImportToolsMode)

\* the same, with "generate" among the values that run generate mode
DispatchOnValidModes ==
    /\ [][DispatchStep({NONE, "", "generate"})]_vars
    /\ [](GenerateMode({NONE, "", "generate"}))
    /\ [](RejectedOtherThan({NONE, "", "generate"}))
    /\ [](ImportToolsMode)

\* JOB_MODE=generate: generate mode has run to a successful end
C39_Witness ==
    /\ job_mode = "generate"
    /\ main_pc = "generate"
    /\ listening
    /\ sup_pc = "returned"
    /\ job_pc = "exited"
    /\ Len(notifications) = 1
    /\ notifications[1].status = "success"
    /\ exit_code = <<0>>

========================================================================
